---- MODULE Spec2Model ----
(***************************************************************************)
(* m - minimalistic media manager (src/m.py, v0.4.1).                      *)
(*                                                                         *)
(* The model covers the path database (per-directory sidecar records in    *)
(* ~/.obfusk-m, aliases as symbolic links between sidecars), the file      *)
(* selector, the commands that mutate the database and the play protocol.  *)
(***************************************************************************)
EXTENDS Integers, Sequences, FiniteSets, TLC

(***************************************************************************)
(* Bounds of the model.                                                    *)
(***************************************************************************)
\* largest elapsed / stored number of seconds a player or an import reports
MaxSecs == 2
\* the selector on its own: parts of a number list, largest number written,
\* largest number of seconds in the files map
MaxParts == 2
MaxIndex == 6
MaxProbeSecs == 1
\* largest resume point stored when the play commands are run on their own
MaxStored == 7

(***************************************************************************)
(* Program constants.                                                      *)
(***************************************************************************)
CONT_BACK == 5
END_SECS == 5

(***************************************************************************)
(* Python values stored in a files map.  bool is a subtype of int in       *)
(* Python: True == 1 and False == 0 compare equal, but type(True) is bool  *)
(* and "x is True" is an identity test.  A value carries its type and its  *)
(* numeric value; None carries type "null".                                *)
(***************************************************************************)
PyBool(b) == [ty |-> "bool", n |-> IF b THEN 1 ELSE 0]
PyInt(k) == [ty |-> "int", n |-> k]
PyNone == [ty |-> "null", n |-> 0]

SKIP == PyInt(-1)
DONE == PyBool(TRUE)
UNMARK == PyBool(FALSE)

\* Python's == on bool / int / None
PyEq(a, b) ==
  IF a.ty = "null" \/ b.ty = "null" THEN a.ty = b.ty ELSE a.n = b.n

STATES == {"skip", "done", "playing", "new"}

EmptyFiles == [x \in {} |-> DONE]

Range(s) == {s[i] : i \in DOMAIN s}

(***************************************************************************)
(* Paths are pathlib parts: <<"/", "m", "more">> is /m/more, <<"more">> is *)
(* the relative path more.                                                 *)
(***************************************************************************)
IsAbsolute(p) == Len(p) > 0 /\ p[1] = "/"
PathJoin(d, p) == IF IsAbsolute(p) THEN p ELSE d \o p
PathName(p) == p[Len(p)]
PathParent(p) == SubSeq(p, 1, Len(p) - 1)
IsUnder(p, d) == Len(p) >= Len(d) /\ SubSeq(p, 1, Len(d)) = d
RelativeTo(p, d) == SubSeq(p, Len(d) + 1, Len(p))

P_m == <<"/", "m">>
P_more == <<"/", "m", "more">>
P_link == <<"/", "m", "link">>
P_link2 == <<"/", "m", "link2">>
P_gone == <<"/", "gone">>
P_rel == <<"more">>
P_sub == <<"/", "m", "sub">>

AllPaths == {P_m, P_more, P_link, P_link2, P_gone, P_rel, P_sub}

(***************************************************************************)
(* Selection expressions.  A FILE argument is classified by its text: one  *)
(* that ends in a media extension is a file name (k = "name", p its path   *)
(* parts), one that is a word is k = "word", and one matching FILESPEC's   *)
(* number list is k = "nums", parts being the <<a, b>> of each             *)
(* comma-separated part (a single number n is <<n, n>>).                   *)
(***************************************************************************)
NameSpec(p) == [k |-> "name", p |-> p, w |-> "", parts |-> <<>>]
WordSpec(s) == [k |-> "word", p |-> <<>>, w |-> s, parts |-> <<>>]
NumSpec(ps) == [k |-> "nums", p |-> <<>>, w |-> "", parts |-> ps]

\* the FILE arguments tried: file names, words, and number lists: every
\* a-b over ix, and the lists "a,b" of two different numbers of 1..top
NameSpecs(ps) == {NameSpec(p) : p \in ps}
WordSpecs == {WordSpec(s) : s \in STATES \cup {"all", "oops"}}
NumSpecs(ix, top) ==
  {NumSpec(<<<<a, b>>>>) : a \in ix, b \in ix}
    \cup {NumSpec(<<<<ab[1], ab[1]>>, <<ab[2], ab[2]>>>>) :
            ab \in {x \in (1..top) \X (1..top) : x[1] # x[2]}}

(***************************************************************************)
(* The media tree the program runs on.  dirs: the paths that are existing  *)
(* directories; real: Path.resolve() of each; files / nonfiles: the        *)
(* regular media files and the other entries of each real directory.  The  *)
(* remaining fields are the inputs the commands are tried with: the        *)
(* directories they are run in, the alias targets, the FILE arguments, the *)
(* --ignorecase settings, the players and the paths of the imported        *)
(* records.                                                                *)
(*   "A": one directory /m with two files and a subdirectory d.mkv         *)
(*   "B": /m/more with one file, reachable as /m/link and /m/link2 too     *)
(*        (symlinked directories) and as the relative path more from /m    *)
(*   "C": /m with one file; records are imported for /m and for /gone,     *)
(*        which does not exist                                             *)
(*   "S": /m with five files, for the selector on its own                  *)
(*   "O": /m with two files, for the play commands on their own            *)
(*   "L": /m with one file and the subdirectories more (two files), link   *)
(*        (a symbolic link to more) and sub (one file), for the listings   *)
(*   "N": /m with two files and a subdirectory d.mkv, for the commands     *)
(*        that are given a file name                                       *)
(***************************************************************************)
WorldA ==
  [ dirs     |-> {P_m},
    real     |-> [p \in {P_m} |-> P_m],
    files    |-> [p \in {P_m} |-> {"Y_.mkv", "x.mkv"}],
    nonfiles |-> [p \in {P_m} |-> {"d.mkv"}],
    cmddirs  |-> {P_m, P_gone},
    targets  |-> {P_m, P_gone},
    specs    |-> NameSpecs({ <<"x.mkv">>, <<"n.mkv">>, <<"d.mkv">>,
                             <<"more", "a.mkv">>, <<"/", "foo", "baz.mkv">>,
                             <<"/", "m", "Y_.mkv">> })
                   \cup WordSpecs \cup NumSpecs(1..3, 3),
    ics      |-> BOOLEAN,
    players  |-> {"mpv", "vlc"},
    imports  |-> {} ]

WorldB ==
  [ dirs     |-> {P_m, P_more, P_link, P_link2, P_rel},
    real     |-> [p \in {P_m, P_more, P_link, P_link2, P_rel} |->
                    IF p = P_m THEN P_m ELSE P_more],
    files    |-> [p \in {P_m, P_more} |->
                    IF p = P_m THEN {} ELSE {"a.mkv"}],
    nonfiles |-> [p \in {P_m, P_more} |-> {}],
    cmddirs  |-> {P_more, P_link, P_link2},
    targets  |-> {P_m, P_more, P_link, P_link2, P_rel, P_gone},
    specs    |-> {NameSpec(<<"a.mkv">>), WordSpec("all")},
    ics      |-> {FALSE},
    players  |-> {},
    imports  |-> {} ]

WorldC ==
  [ dirs     |-> {P_m},
    real     |-> [p \in {P_m} |-> P_m],
    files    |-> [p \in {P_m} |-> {"x.mkv"}],
    nonfiles |-> [p \in {P_m} |-> {}],
    cmddirs  |-> {P_m},
    targets  |-> {P_m},
    specs    |-> {NameSpec(<<"x.mkv">>), NameSpec(<<"n.mkv">>), WordSpec("all")},
    ics      |-> {FALSE},
    players  |-> {},
    imports  |-> { P_m \o <<"n.mkv">>, P_gone \o <<"n.mkv">> } ]

WorldS ==
  [ dirs     |-> {P_m},
    real     |-> [p \in {P_m} |-> P_m],
    files    |-> [p \in {P_m} |-> {"Y_.mkv", "a.mkv", "x.mkv", "y.mkv", "z.mkv"}],
    nonfiles |-> [p \in {P_m} |-> {}],
    cmddirs  |-> {P_m},
    targets  |-> {},
    specs    |-> {},
    ics      |-> BOOLEAN,
    players  |-> {},
    imports  |-> {} ]

WorldO ==
  [ dirs     |-> {P_m},
    real     |-> [p \in {P_m} |-> P_m],
    files    |-> [p \in {P_m} |-> {"x.mkv", "y.mkv"}],
    nonfiles |-> [p \in {P_m} |-> {}],
    cmddirs  |-> {P_m},
    targets  |-> {},
    specs    |-> {NameSpec(<<"x.mkv">>), WordSpec("all")},
    ics      |-> {FALSE},
    players  |-> {"mpv"},
    imports  |-> {} ]

WorldL ==
  [ dirs     |-> {P_m, P_more, P_link, P_sub},
    real     |-> [p \in {P_m, P_more, P_link, P_sub} |->
                    IF p = P_link THEN P_more ELSE p],
    files    |-> [p \in {P_m, P_more, P_sub} |->
                    IF p = P_m THEN {"x.mkv"}
                    ELSE IF p = P_more THEN {"a.mkv", "b.mkv"} ELSE {"a.mkv"}],
    nonfiles |-> [p \in {P_m, P_more, P_sub} |-> {}],
    cmddirs  |-> {P_m, P_more, P_link, P_sub},
    targets  |-> {},
    specs    |-> {WordSpec("all")},
    ics      |-> {FALSE},
    players  |-> {},
    imports  |-> { P_more \o <<"a.mkv">>, P_sub \o <<"a.mkv">> } ]

WorldN ==
  [ dirs     |-> {P_m},
    real     |-> [p \in {P_m} |-> P_m],
    files    |-> [p \in {P_m} |-> {"x.mkv", "y.mkv"}],
    nonfiles |-> [p \in {P_m} |-> {"d.mkv"}],
    cmddirs  |-> {P_m},
    targets  |-> {},
    specs    |-> NameSpecs({<<"x.mkv">>, <<"n.mkv">>, <<"d.mkv">>})
                   \cup {WordSpec("all")},
    ics      |-> {FALSE},
    players  |-> {"mpv"},
    imports  |-> {} ]

WorldIds == {"A", "B", "C"}

Worlds ==
  [id \in WorldIds \cup {"S", "O", "L", "N"} |->
     CASE id = "A" -> WorldA [] id = "B" -> WorldB [] id = "C" -> WorldC
       [] id = "S" -> WorldS [] id = "O" -> WorldO [] id = "L" -> WorldL
       [] id = "N" -> WorldN]

(***************************************************************************)
(* sorted_: Python compares the keys (k(x), x), k being str.lower under    *)
(* --ignorecase.  StrOrd is the code point order of the names and LowOrd   *)
(* the code point order of their lower-cased forms.                        *)
(***************************************************************************)
FileNames == {"Y_.mkv", "a.mkv", "b.mkv", "d.mkv", "n.mkv", "x.mkv",
              "y.mkv", "z.mkv"}

\* the names sorted: the files above and the subdirectories link, more, sub
StrOrd(s) ==
  CASE s = "Y_.mkv" -> 1 [] s = "a.mkv" -> 2 [] s = "b.mkv" -> 3
    [] s = "d.mkv" -> 4 [] s = "link" -> 5 [] s = "link2" -> 6
    [] s = "more" -> 7 [] s = "n.mkv" -> 8 [] s = "sub" -> 9
    [] s = "x.mkv" -> 10 [] s = "y.mkv" -> 11 [] s = "z.mkv" -> 12

LowOrd(s) ==
  CASE s = "a.mkv" -> 1 [] s = "b.mkv" -> 2 [] s = "d.mkv" -> 3
    [] s = "link" -> 4 [] s = "link2" -> 5 [] s = "more" -> 6
    [] s = "n.mkv" -> 7 [] s = "sub" -> 8 [] s = "x.mkv" -> 9
    [] s = "y.mkv" -> 10 [] s = "Y_.mkv" -> 11 [] s = "z.mkv" -> 12

KeyLess(a, b, ic) ==
  IF ic THEN LowOrd(a) < LowOrd(b) \/ (LowOrd(a) = LowOrd(b) /\ StrOrd(a) < StrOrd(b))
        ELSE StrOrd(a) < StrOrd(b)

RECURSIVE sorted_(_, _)
sorted_(S, ic) ==
  IF S = {} THEN <<>>
  ELSE LET m == CHOOSE x \in S : \A y \in S \ {x} : KeyLess(x, y, ic)
       IN  <<m>> \o sorted_(S \ {m}, ic)

(***************************************************************************)
(* State.                                                                  *)
(*   world : which media tree the run is on (fixed by Init)                *)
(*   cfg   : the configuration directory: for every sidecar name, no       *)
(*           entry, a regular JSON file or a symbolic link                 *)
(*   inv   : the play invocation in progress or just ended: its position  *)
(*           (pc), command, directory, player, the file being played, the  *)
(*           files still to play, the number of files played and written,  *)
(*           the files map loaded when the command started, the player's   *)
(*           report, and the configuration directory as it was when the    *)
(*           command started                                               *)
(*   out   : what the last step did: the command's name, the error it      *)
(*           reported, the db_update calls it made, the player launches    *)
(*           and the message it printed                                    *)
(*   probe : one application of the selector to given arguments: the files *)
(*           map, the FILE argument, --ignorecase, and the result          *)
(***************************************************************************)
VARIABLES world, cfg, inv, out, probe

vars == <<world, cfg, inv, out, probe>>

W == Worlds[world]

\* the sidecar file name of a directory path: prefix, the path (pinned down
\* by its SHA-1 digest), suffix
db_dir_file(d) == <<"dir__", d, ".json">>

SidecarNames == {db_dir_file(p) : p \in AllPaths}

NoEntry == [k |-> "none", dir |-> <<>>, files |-> EmptyFiles, to |-> <<>>]
\* a record with a top-level key besides dir and files (not written by m)
ExtraKeyEntry(db) == [k |-> "extra", dir |-> db.dir, files |-> db.files, to |-> <<>>]
FileEntry(db) == [k |-> "file", dir |-> db.dir, files |-> db.files, to |-> <<>>]
LinkEntry(n) == [k |-> "link", dir |-> <<>>, files |-> EmptyFiles, to |-> n]

(***************************************************************************)
(* pathlib on the configuration directory.  exists(), open() and resolve() *)
(* follow symbolic links; is_symlink() does not.                           *)
(***************************************************************************)
RECURSIVE Follow(_, _, _)
Follow(c, n, fuel) ==
  IF c[n].k = "link" /\ fuel > 0 THEN Follow(c, c[n].to, fuel - 1) ELSE n

resolve(c, n) == Follow(c, n, Cardinality(SidecarNames))
exists(c, n) == c[resolve(c, n)].k \in {"file", "extra"}
is_symlink(c, n) == c[n].k = "link"
open_w(c, n, db) == [c EXCEPT ![resolve(c, n)] = FileEntry(db)]

(***************************************************************************)
(* _db_check.  db.keys says that the record's top-level keys are exactly   *)
(* dir and files, as they are in every record the program writes.          *)
(***************************************************************************)
ValidValue(x) ==
  IF x.ty = "int" THEN x.n > 0 \/ PyEq(x, SKIP) ELSE x = DONE

\* _db_check without the check of the files' values
_db_check_dir_only(c, df, dpath, db) ==
  \/ db.dir = dpath
  \/ is_symlink(c, df) /\ resolve(c, df) = db_dir_file(db.dir)

\* _db_check without the clause for a sidecar that is a symbolic link
_db_check_no_link(c, df, dpath, db) ==
  /\ db.dir = dpath
  /\ \A fn \in DOMAIN db.files : ValidValue(db.files[fn])

\* _db_check without the check of the top-level keys
_db_check_any_keys(c, df, dpath, db) ==
  /\ \/ db.dir = dpath
     \/ is_symlink(c, df) /\ resolve(c, df) = db_dir_file(db.dir)
  /\ \A fn \in DOMAIN db.files : ValidValue(db.files[fn])

_db_check(c, df, dpath, db) ==
  /\ db.keys
  /\ \/ db.dir = dpath
     \/ is_symlink(c, df) /\ resolve(c, df) = db_dir_file(db.dir)
  /\ \A fn \in DOMAIN db.files : ValidValue(db.files[fn])

db_load(c, dpath) ==
  LET df == db_dir_file(dpath)
      e  == c[resolve(c, df)]
      db == [keys |-> e.k = "file", dir |-> e.dir, files |-> e.files]
  IN  IF ~exists(c, df) THEN [ok |-> TRUE, dir |-> dpath, files |-> EmptyFiles]
      ELSE IF _db_check(c, df, dpath, db)
           THEN [ok |-> TRUE, dir |-> db.dir, files |-> db.files]
           ELSE [ok |-> FALSE, dir |-> dpath, files |-> EmptyFiles]

\* {**files, **fs}: the stored entries win over the changes
Merge_stored_wins(fs, files) ==
  [fn \in DOMAIN fs \cup DOMAIN files |->
     IF fn \in DOMAIN fs THEN fs[fn] ELSE files[fn]]

\* a merge under which a change equal to the stored value removes the key
Merge_toggle(fs, files) ==
  [fn \in DOMAIN fs \cup DOMAIN files |->
     IF fn \in DOMAIN files
     THEN IF fn \in DOMAIN fs /\ fs[fn] = files[fn] THEN UNMARK ELSE files[fn]
     ELSE fs[fn]]

Merge(fs, files) ==
  [fn \in DOMAIN fs \cup DOMAIN files |->
     IF fn \in DOMAIN files THEN files[fn] ELSE fs[fn]]

Prune(m) ==
  LET keep == {fn \in DOMAIN m : ~PyEq(m[fn], UNMARK)}
  IN  [fn \in keep |-> m[fn]]

\* db_update that keeps the directory it was called with instead of the
\* loaded record's own
db_update_keeps_dpath(c, dpath, files) ==
  LET db     == db_load(c, dpath)
      df     == db_dir_file(dpath)
      fs_    == Prune(Merge(db.files, files))
      db_    == [keys |-> TRUE, dir |-> dpath, files |-> fs_]
  IN  IF ~db.ok THEN [ok |-> FALSE, cfg |-> c]
      ELSE IF ~_db_check(c, df, dpath, db_) THEN [ok |-> FALSE, cfg |-> c]
      ELSE [ok |-> TRUE, cfg |-> open_w(c, df, db_)]

\* db_update that opens the sidecar for writing before it checks the
\* merged record: a record that fails the check is left without entries
db_update_opens_first(c, dpath, files) ==
  LET db     == db_load(c, dpath)
      dpath_ == db.dir
      df     == db_dir_file(dpath_)
      fs_    == Prune(Merge(db.files, files))
      db_    == [keys |-> TRUE, dir |-> dpath_, files |-> fs_]
      none   == [keys |-> TRUE, dir |-> dpath_, files |-> EmptyFiles]
  IN  IF ~db.ok THEN [ok |-> FALSE, cfg |-> c]
      ELSE IF ~_db_check(c, df, dpath_, db_)
           THEN [ok |-> FALSE, cfg |-> open_w(c, df, none)]
      ELSE [ok |-> TRUE, cfg |-> open_w(c, df, db_)]

db_update(c, dpath, files) ==
  LET db     == db_load(c, dpath)
      dpath_ == db.dir
      df     == db_dir_file(dpath_)
      fs_    == Prune(Merge(db.files, files))
      db_    == [keys |-> TRUE, dir |-> dpath_, files |-> fs_]
  IN  IF ~db.ok THEN [ok |-> FALSE, cfg |-> c]
      ELSE IF ~_db_check(c, df, dpath_, db_) THEN [ok |-> FALSE, cfg |-> c]
      ELSE [ok |-> TRUE, cfg |-> open_w(c, df, db_)]

(***************************************************************************)
(* Classification.                                                         *)
(***************************************************************************)
\* _state_in_db without the test of the type (True > 0 in Python)
_state_in_db_untyped(what) ==
  IF what.n > 0 THEN "playing"
  ELSE IF PyEq(what, SKIP) THEN "skip"
  ELSE IF PyEq(what, DONE) THEN "done"
  ELSE "KeyError"

_state_in_db(what) ==
  IF what.ty = "int" /\ what.n > 0 THEN "playing"
  ELSE IF PyEq(what, SKIP) THEN "skip"
  ELSE IF PyEq(what, DONE) THEN "done"
  ELSE "KeyError"

_state(fn, fs) == IF fn \in DOMAIN fs THEN _state_in_db(fs[fn]) ELSE "new"

dir_files(w, dpath, ic) == sorted_(w.files[w.real[dpath]], ic)

(***************************************************************************)
(* Resolving a selection expression.                                       *)
(***************************************************************************)
Sel(err, files) == [err |-> err, files |-> files]

check_filename(w, dpath, fn, must_exist) ==
  LET p       == PathJoin(dpath, fn)
      r       == RelativeTo(p, dpath)
      here    == w.real[dpath]
      is_file == PathName(p) \in w.files[here]
      exists_ == is_file \/ PathName(p) \in w.nonfiles[here]
  IN  IF ~IsUnder(p, dpath) THEN Sel("PathEscape", <<>>)
      ELSE IF Len(r) # 1 THEN Sel("NotInDirectory", <<>>)
      ELSE IF (must_exist \/ exists_) /\ ~is_file THEN Sel("NotAFile", <<>>)
      ELSE Sel("", <<PathName(p)>>)

\* files[a:b]: the slice one place too far to the right
Slice_from_a(files, a, b) == {files[i] : i \in (a + 1)..b}

\* a slice that reads b-a as a-b when a > b
Slice_either_way(files, a, b) ==
  {files[i] : i \in (IF a <= b THEN a ELSE b)..(IF a <= b THEN b ELSE a)}

\* files[a-1:b] for 1 <= a, b <= len(files)
Slice(files, a, b) == {files[i] : i \in a..b}

RECURSIVE NumFiles(_, _, _)
NumFiles(files, parts, ret) ==
  IF parts = <<>> THEN [err |-> "", ret |-> ret]
  ELSE LET a == parts[1][1]
           b == parts[1][2]
       IN  IF \E x \in {a, b} : ~(1 <= x /\ x <= Len(files))
           THEN [err |-> "OutOfRange", ret |-> {}]
           ELSE NumFiles(files, Tail(parts), ret \cup Slice(files, a, b))

_files_from_spec(w, dpath, fs, spec, must_exist, ic) ==
  IF spec.k = "name" THEN check_filename(w, dpath, spec.p, must_exist)
  ELSE IF (spec.k = "word" /\ spec.w \in STATES \cup {"all"}) \/ spec.k = "nums"
  THEN LET files == dir_files(w, dpath, ic)
       IN  IF spec.k = "word" /\ spec.w = "all" THEN Sel("", files)
           ELSE IF spec.k = "word"
           THEN Sel("", SelectSeq(files, LAMBDA fn : _state(fn, fs) = spec.w))
           ELSE LET r == NumFiles(files, spec.parts, {})
                IN  IF r.err # "" THEN Sel(r.err, <<>>)
                    ELSE Sel("", sorted_(r.ret, ic))
  ELSE Sel("InvalidSelection", <<>>)

(***************************************************************************)
(* Inputs of the commands: a FILE argument and the --ignorecase toggle     *)
(* (which only matters when the directory is enumerated).                  *)
(***************************************************************************)
CmdArgs ==
  {[spec |-> s, ic |-> i] : s \in W.specs, i \in W.ics} \
  {[spec |-> s, ic |-> TRUE] : s \in {x \in W.specs : x.k = "name"}}

(***************************************************************************)
(* Commands.  do_something checks the directory and loads its files map    *)
(* before the command proper runs.                                         *)
(***************************************************************************)
Out(cmd, err, upd, launch, msg) ==
  [cmd |-> cmd, err |-> err, upd |-> upd, launch |-> launch, msg |-> msg]

Upd(d, ch) == [dir |-> d, ch |-> ch]

NoRep == [pos |-> -1, tot |-> 0]

NoProbe ==
  [spec |-> WordSpec(""), ic |-> FALSE, fs |-> EmptyFiles, done |-> FALSE,
   res |-> Sel("", <<>>)]

EmptyCfg == [n \in SidecarNames |-> NoEntry]

IdleInv ==
  [pc |-> "Idle", cmd |-> "", dir |-> <<>>, player |-> "", cur |-> "",
   queue |-> <<>>, played |-> 0, fs |-> EmptyFiles, rep |-> NoRep,
   cfg0 |-> EmptyCfg]

\* a play command is between its start and its end
Busy == inv.pc \in {"Launching", "Reconciling"} \/ inv.queue # <<>>

do_something(c, dpath, needfs) ==
  LET db == db_load(c, dpath)
  IN  IF dpath \notin W.dirs THEN [err |-> "NotADirectory", fs |-> EmptyFiles]
      ELSE IF needfs /\ ~db.ok THEN [err |-> "CorruptDatabase", fs |-> EmptyFiles]
      ELSE [err |-> "", fs |-> db.files]

\* one db_update call as the last thing a command does
Update(cmd, dpath, ch) ==
  \E u \in {db_update(cfg, dpath, ch)} :
    /\ cfg' = u.cfg
    /\ inv' = IdleInv
    /\ out' = Out(cmd, IF u.ok THEN "" ELSE "CorruptDatabase",
                  <<Upd(dpath, ch)>>, <<>>, <<>>)

Fail(cmd, err) ==
  /\ cfg' = cfg
  /\ inv' = IdleInv
  /\ out' = Out(cmd, err, <<>>, <<>>, <<>>)

\* mark/skip that writes the record before it looks at the selection's error
MarkOrSkip_writes_first(cmd, st, dpath) ==
  LET ds == do_something(cfg, dpath, TRUE)
  IN  /\ ~Busy
      /\ UNCHANGED <<world, probe>>
      /\ IF ds.err # "" THEN Fail(cmd, ds.err)
         ELSE \E a \in CmdArgs :
           \E files \in {_files_from_spec(W, dpath, ds.fs, a.spec, TRUE, a.ic)} :
             IF files.err # ""
             THEN /\ cfg' = db_update(cfg, dpath, EmptyFiles).cfg
                  /\ inv' = IdleInv
                  /\ out' = Out(cmd, files.err, <<>>, <<>>, <<>>)
             ELSE Update(cmd, dpath, [fn \in Range(files.files) |-> st])

\* mark or skip run with the FILE argument a.spec
MarkOrSkipOf(cmd, st, dpath, a) ==
  LET ds == do_something(cfg, dpath, TRUE)
  IN  /\ ~Busy
      /\ UNCHANGED <<world, probe>>
      /\ IF ds.err # "" THEN Fail(cmd, ds.err)
         ELSE \E files \in {_files_from_spec(W, dpath, ds.fs, a.spec, TRUE, a.ic)} :
                IF files.err # "" THEN Fail(cmd, files.err)
                ELSE Update(cmd, dpath, [fn \in Range(files.files) |-> st])

MarkOrSkip(cmd, st, dpath) == \E a \in CmdArgs : MarkOrSkipOf(cmd, st, dpath, a)

do_mark_file(dpath) == MarkOrSkip("mark", DONE, dpath)

do_skip_file(dpath) == MarkOrSkip("skip", SKIP, dpath)

\* unmark that asks check_filename for a file that exists
do_unmark_file_must_exist(dpath, a, quiet) ==
  LET ds == do_something(cfg, dpath, TRUE)
  IN  /\ ~Busy
      /\ UNCHANGED <<world, probe>>
      /\ IF ds.err # "" THEN Fail("unmark", ds.err)
         ELSE \E files \in {_files_from_spec(W, dpath, ds.fs, a.spec, TRUE, a.ic)} :
                LET files_ == {fn \in Range(files.files) : fn \in DOMAIN ds.fs}
                    unk    == Range(files.files) \ files_
                IN  IF files.err # "" THEN Fail("unmark", files.err)
                    ELSE \E u \in {db_update(cfg, dpath, [fn \in files_ |-> UNMARK])} :
                           /\ cfg' = u.cfg
                           /\ inv' = IdleInv
                           /\ out' = Out("unmark", IF u.ok THEN "" ELSE "CorruptDatabase",
                                         <<Upd(dpath, [fn \in files_ |-> UNMARK])>>, <<>>,
                                         IF quiet \/ unk = {} THEN <<>>
                                         ELSE <<"IGNORE_UNK", unk>>)

\* unmark run with the FILE argument a.spec; the names that are no entries
\* are reported (unless --quiet) before the record is written
do_unmark_file_of(dpath, a, quiet) ==
  LET ds == do_something(cfg, dpath, TRUE)
  IN  /\ ~Busy
      /\ UNCHANGED <<world, probe>>
      /\ IF ds.err # "" THEN Fail("unmark", ds.err)
         ELSE \E files \in {_files_from_spec(W, dpath, ds.fs, a.spec, FALSE, a.ic)} :
                LET files_ == {fn \in Range(files.files) : fn \in DOMAIN ds.fs}
                    unk    == Range(files.files) \ files_
                IN  IF files.err # "" THEN Fail("unmark", files.err)
                    ELSE \E u \in {db_update(cfg, dpath, [fn \in files_ |-> UNMARK])} :
                           /\ cfg' = u.cfg
                           /\ inv' = IdleInv
                           /\ out' = Out("unmark", IF u.ok THEN "" ELSE "CorruptDatabase",
                                         <<Upd(dpath, [fn \in files_ |-> UNMARK])>>, <<>>,
                                         IF quiet \/ unk = {} THEN <<>>
                                         ELSE <<"IGNORE_UNK", unk>>)

do_unmark_file(dpath) ==
  \E a \in CmdArgs, quiet \in BOOLEAN : do_unmark_file_of(dpath, a, quiet)

do_index_dir(dpath) ==
  LET ds == do_something(cfg, dpath, FALSE)
  IN  /\ ~Busy
      /\ UNCHANGED <<world, probe>>
      /\ IF ds.err # "" THEN Fail("index", ds.err)
         ELSE Update("index", dpath, EmptyFiles)

(***************************************************************************)
(* alias: the five checks in the order of the code, then symlink_to, which *)
(* raises FileExistsError when the source's sidecar name is taken by a     *)
(* dangling link (exists() follows links, symlink_to does not).            *)
(***************************************************************************)
\* the checks without the one that the source has no sidecar yet
AliasError_no_exists(c, w, dpath, target) ==
  LET df_a == db_dir_file(dpath)
      df_t == db_dir_file(target)
  IN  IF target \notin w.dirs THEN "NotADirectory"
      ELSE IF ~IsAbsolute(target) THEN "RelativePath"
      ELSE IF w.real[dpath] # w.real[target] THEN "PathMismatch"
      ELSE IF ~exists(c, df_t) THEN "NotIndexed"
      ELSE IF c[df_a].k # "none" THEN "FileExistsError"
      ELSE ""

\* the checks without the one that the target has a sidecar
AliasError_target_unchecked(c, w, dpath, target) ==
  LET df_a == db_dir_file(dpath)
  IN  IF target \notin w.dirs THEN "NotADirectory"
      ELSE IF ~IsAbsolute(target) THEN "RelativePath"
      ELSE IF w.real[dpath] # w.real[target] THEN "PathMismatch"
      ELSE IF exists(c, df_a) THEN "AlreadyExists"
      ELSE IF c[df_a].k # "none" THEN "FileExistsError"
      ELSE ""

AliasError(c, w, dpath, target) ==
  LET df_a == db_dir_file(dpath)
      df_t == db_dir_file(target)
  IN  IF target \notin w.dirs THEN "NotADirectory"
      ELSE IF ~IsAbsolute(target) THEN "RelativePath"
      ELSE IF w.real[dpath] # w.real[target] THEN "PathMismatch"
      ELSE IF exists(c, df_a) THEN "AlreadyExists"
      ELSE IF ~exists(c, df_t) THEN "NotIndexed"
      ELSE IF c[df_a].k # "none" THEN "FileExistsError"
      ELSE ""

do_alias_dir(dpath, target) ==
  LET ds   == do_something(cfg, dpath, FALSE)
      df_a == db_dir_file(dpath)
      df_t == db_dir_file(target)
      err  == AliasError(cfg, W, dpath, target)
  IN  /\ ~Busy
      /\ UNCHANGED <<world, probe>>
      /\ IF ds.err # "" THEN Fail("alias", ds.err)
         ELSE IF err # "" THEN Fail("alias", err)
         ELSE /\ cfg' = [cfg EXCEPT ![df_a] = LinkEntry(df_t)]
              /\ inv' = IdleInv
              /\ out' = Out("alias", "", <<>>, <<>>, <<"ALIAS">>)

(***************************************************************************)
(* Playing.  A play command resolves its files, then for each file in turn *)
(* launches the player and waits for it (Launching); a player that cannot  *)
(* be started or exits non-zero ends the command (Failed); otherwise the   *)
(* player's report is reconciled (Reconciling) and the result is written   *)
(* with db_update (Continuing, Finished or Unmarked).                      *)
(***************************************************************************)
db_t(fs, fn) ==
  IF fn \in DOMAIN fs /\ fs[fn].ty = "int" /\ fs[fn].n > 0 THEN fs[fn].n ELSE 0

Max(a, b) == IF a >= b THEN a ELSE b

\* the start offset without the clamp at 0
StartOffset_unclamped(fs, fn) ==
  LET t == db_t(fs, fn) IN IF t # 0 THEN t - CONT_BACK ELSE 0

\* the start offset play_file hands to the player (db_t's None counts as 0)
StartOffset(fs, fn) ==
  LET t == db_t(fs, fn) IN IF t # 0 THEN Max(0, t - CONT_BACK) ELSE 0

Launch(fs, fn) == [fn |-> fn, off |-> StartOffset(fs, fn)]

\* dir_next that always uses its default skip = "skip done"
dir_next_default_skip(w, dpath, fs, skip, ic) ==
  LET files == dir_files(w, dpath, ic)
      todo  == SelectSeq(files, LAMBDA fn : _state(fn, fs) \notin {"skip", "done"})
  IN  IF todo = <<>> THEN <<>> ELSE <<todo[1]>>

dir_next(w, dpath, fs, skip, ic) ==
  LET files == dir_files(w, dpath, ic)
      todo  == SelectSeq(files, LAMBDA fn : _state(fn, fs) \notin skip)
  IN  IF todo = <<>> THEN <<>> ELSE <<todo[1]>>

\* play_file for the first of files, the others queued
StartPlay(cmd, dpath, player, fs, files) ==
  /\ cfg' = cfg
  /\ inv' = [pc |-> "Launching", cmd |-> cmd, dir |-> dpath, player |-> player,
             cur |-> files[1], queue |-> Tail(files), played |-> 0, fs |-> fs,
             rep |-> NoRep, cfg0 |-> cfg]
  /\ out' = Out(cmd, "", <<>>, <<Launch(fs, files[1])>>, <<>>)

Nothing(cmd, msg) ==
  /\ cfg' = cfg
  /\ inv' = IdleInv
  /\ out' = Out(cmd, "", <<>>, <<>>, msg)

\* play run with the FILE argument a.spec
do_play_file_of(dpath, player, a) ==
  LET ds == do_something(cfg, dpath, TRUE)
  IN  /\ ~Busy
      /\ UNCHANGED <<world, probe>>
      /\ IF ds.err # "" THEN Fail("play", ds.err)
         ELSE \E files \in {_files_from_spec(W, dpath, ds.fs, a.spec, TRUE, a.ic)} :
                IF files.err # "" THEN Fail("play", files.err)
                ELSE IF files.files = <<>> THEN Nothing("play", <<>>)
                ELSE StartPlay("play", dpath, player, ds.fs, files.files)

do_play_file(dpath, player) == \E a \in CmdArgs : do_play_file_of(dpath, player, a)

_play_file_if(cmd, dpath, player, skip) ==
  LET ds == do_something(cfg, dpath, TRUE)
  IN  /\ ~Busy
      /\ UNCHANGED <<world, probe>>
      /\ IF ds.err # "" THEN Fail(cmd, ds.err)
         ELSE \E ic \in W.ics :
           LET fn == dir_next(W, dpath, ds.fs, skip, ic)
           IN  IF fn = <<>> THEN Nothing(cmd, <<"NOFILES">>)
               ELSE StartPlay(cmd, dpath, player, ds.fs, fn)

do_play_next(dpath, player) ==
  _play_file_if("next", dpath, player, {"skip", "done"})

do_play_next_new(dpath, player) ==
  _play_file_if("next-new", dpath, player, {"skip", "done", "playing"})

\* a failed launch that still records the file as played
PlayerFails_marks(kind) ==
  /\ inv.pc = "Launching"
  /\ UNCHANGED <<world, probe>>
  /\ cfg' = db_update(cfg, inv.dir, [fn \in {inv.cur} |-> DONE]).cfg
  /\ inv' = [inv EXCEPT !.pc = "Failed", !.queue = <<>>]
  /\ out' = Out(inv.cmd, kind, <<>>, <<>>, <<>>)

\* the player could not be started, or exited with a non-zero status
PlayerFails(kind) ==
  /\ inv.pc = "Launching"
  /\ UNCHANGED <<world, probe>>
  /\ cfg' = cfg
  /\ inv' = [inv EXCEPT !.pc = "Failed", !.queue = <<>>]
  /\ out' = Out(inv.cmd, kind, <<>>, <<>>, <<>>)

\* What a player that exited with status 0 leaves behind.  mpv: the last
\* "AV: elapsed / total" of its output, or an output without "AV:" (NoAV);
\* vlc: the time of the file in the recent-files record (pos = -1: the file
\* is not in the record).
NoAV == [pos |-> -1, tot |-> 0]

MpvReports ==
  {[pos |-> e, tot |-> e + k] : e \in 0..MaxSecs,
                                k \in {0, END_SECS - 1, END_SECS, END_SECS + 1}}
    \cup {NoAV}
VlcReports == {[pos |-> p, tot |-> 0] : p \in -1..MaxSecs}

Reports(player) == IF player = "mpv" THEN MpvReports ELSE VlcReports

PlayerExits(rep) ==
  /\ inv.pc = "Launching"
  /\ rep \in Reports(inv.player)
  /\ UNCHANGED <<world, probe>>
  /\ cfg' = cfg
  /\ inv' = [inv EXCEPT !.pc = "Reconciling", !.rep = rep]
  /\ out' = Out(inv.cmd, "", <<>>, <<>>, <<>>)

\* The player is killed by a signal.  subprocess.run(check = True), which
\* runs vlc, has the return code -signal and raises CalledProcessError;
\* _pty_run, which runs mpv, looks at the exit code of the wait status
\* only, which is 0, and returns the output read so far.
SIGKILL == 9

\* returncode of subprocess.run; retcodesig >> 8 of _pty_run
returncode(player, sig) == IF player = "vlc" THEN 0 - sig ELSE 0

PlayerKilled(rep) ==
  /\ inv.pc = "Launching"
  /\ rep \in Reports(inv.player)
  /\ UNCHANGED <<world, probe>>
  /\ cfg' = cfg
  /\ IF returncode(inv.player, SIGKILL) # 0
     THEN /\ inv' = [inv EXCEPT !.pc = "Failed", !.queue = <<>>]
          /\ out' = Out(inv.cmd, "PlayerExitedAbnormally", <<>>, <<>>, <<>>)
     ELSE /\ inv' = [inv EXCEPT !.pc = "Reconciling", !.rep = rep]
          /\ out' = Out(inv.cmd, "", <<>>, <<>>, <<>>)

\* b.rindex(b"AV:") raises ValueError when the output holds no "AV:"
ValueError == [ty |-> "exc", n |-> 0]

\* mpv_play with <= for <
mpv_play_le(rep) ==
  IF rep = NoAV THEN ValueError
  ELSE IF rep.pos + END_SECS <= rep.tot
  THEN (IF rep.pos # 0 THEN PyInt(rep.pos) ELSE UNMARK)
  ELSE DONE

mpv_play(rep) ==
  IF rep = NoAV THEN ValueError
  ELSE IF rep.pos + END_SECS < rep.tot
  THEN (IF rep.pos # 0 THEN PyInt(rep.pos) ELSE UNMARK)
  ELSE DONE

\* vlc_play that takes a position of 0 for a position
vlc_play_zero_is_position(rep, yes) ==
  LET t_ == IF rep.pos >= 0 THEN PyInt(rep.pos) ELSE DONE
  IN  IF t_ = DONE /\ ~yes THEN UNMARK ELSE t_

\* prompt_yn is called only when vlc reported no position for the file
vlc_prompts(rep) == ~(rep.pos > 0)

vlc_play(rep, yes) ==
  LET t_ == IF rep.pos > 0 THEN PyInt(rep.pos) ELSE DONE
  IN  IF t_ = DONE /\ ~yes THEN UNMARK ELSE t_

Outcome(t2) ==
  IF t2 = DONE THEN "Finished"
  ELSE IF PyEq(t2, UNMARK) THEN "Unmarked"
  ELSE "Continuing"

\* the end of play_file with the files map of the command's start written
\* back instead of db_update's reloaded record
Reconcile_from_snapshot(yes) ==
  LET t2 == IF inv.player = "mpv" THEN mpv_play(inv.rep)
            ELSE vlc_play(inv.rep, yes)
      ch == [fn \in {inv.cur} |-> t2]
      db_ == [dir |-> inv.dir, files |-> Prune(Merge(inv.fs, ch))]
  IN  /\ inv.pc = "Reconciling"
      /\ UNCHANGED <<world, probe>>
      /\ IF t2 = ValueError
         THEN /\ cfg' = cfg
              /\ inv' = [inv EXCEPT !.pc = "Crashed", !.rep = NoRep, !.queue = <<>>]
              /\ out' = Out(inv.cmd, "ValueError", <<>>, <<>>, <<>>)
         ELSE /\ cfg' = open_w(cfg, db_dir_file(inv.dir), db_)
              /\ inv' = [inv EXCEPT !.pc = Outcome(t2), !.rep = NoRep,
                                    !.played = inv.played + 1]
              /\ out' = Out(inv.cmd, "", <<Upd(inv.dir, ch)>>, <<>>,
                            IF inv.player = "vlc" /\ vlc_prompts(inv.rep)
                            THEN <<"PROMPT", yes>> ELSE <<>>)

\* the rest of play_file: the player's result is written with db_update; a
\* ValueError of mpv_play is caught nowhere and ends the command
Reconcile(yes) ==
  LET t2 == IF inv.player = "mpv" THEN mpv_play(inv.rep)
            ELSE vlc_play(inv.rep, yes)
      ch == [fn \in {inv.cur} |-> t2]
  IN  /\ inv.pc = "Reconciling"
      /\ UNCHANGED <<world, probe>>
      /\ IF t2 = ValueError
         THEN /\ cfg' = cfg
              /\ inv' = [inv EXCEPT !.pc = "Crashed", !.rep = NoRep, !.queue = <<>>]
              /\ out' = Out(inv.cmd, "ValueError", <<>>, <<>>, <<>>)
         ELSE
         \E u \in {db_update(cfg, inv.dir, ch)} :
           /\ cfg' = u.cfg
           /\ inv' = IF u.ok THEN [inv EXCEPT !.pc = Outcome(t2), !.rep = NoRep,
                                              !.played = inv.played + 1]
                     ELSE [inv EXCEPT !.pc = "UpdateFailed", !.rep = NoRep,
                                      !.queue = <<>>]
           /\ out' = Out(inv.cmd, IF u.ok THEN "" ELSE "CorruptDatabase",
                         <<Upd(inv.dir, ch)>>, <<>>,
                         IF inv.player = "vlc" /\ vlc_prompts(inv.rep)
                         THEN <<"PROMPT", yes>> ELSE <<>>)

\* do_play_file's loop goes on to the next file
NextFile ==
  /\ inv.pc \in {"Continuing", "Finished", "Unmarked"}
  /\ inv.queue # <<>>
  /\ UNCHANGED <<world, probe>>
  /\ cfg' = cfg
  /\ inv' = [inv EXCEPT !.pc = "Launching", !.cur = inv.queue[1],
                        !.queue = Tail(inv.queue), !.rep = NoRep]
  /\ out' = Out(inv.cmd, "", <<>>, <<Launch(inv.fs, inv.queue[1])>>, <<>>)

(***************************************************************************)
(* Importing.  A pattern is a literal path component ("" is no pattern),   *)
(* so re.search finds it when some component equals it and re.sub replaces *)
(* the components equal to it.  The staged data is a dict in insertion     *)
(* order: a sequence of directories, each with its changes.                *)
(***************************************************************************)
re_search(rx, fp) == \E i \in DOMAIN fp : fp[i] = rx

RECURSIVE re_sub(_, _, _, _)
\* count < 0: replace all occurrences
re_sub(rx, rp, fp, count) ==
  IF fp = <<>> \/ count = 0 THEN fp
  ELSE IF fp[1] = rx THEN <<rp>> \o re_sub(rx, rp, Tail(fp), count - 1)
  ELSE <<fp[1]>> \o re_sub(rx, rp, Tail(fp), count)

RECURSIVE SubEach(_, _, _)
SubEach(rules, fp, count) ==
  IF rules = <<>> THEN fp
  ELSE SubEach(Tail(rules), re_sub(rules[1][1], rules[1][2], fp, count), count)

\* staging that opens a new group for every line
Stage_per_line(data, dpath, fn, st) == Append(data, Upd(dpath, [f \in {fn} |-> st]))

Stage(data, dpath, fn, st) ==
  IF \E i \in DOMAIN data : data[i].dir = dpath
  THEN [i \in DOMAIN data |->
          IF data[i].dir = dpath
          THEN Upd(dpath, Merge(data[i].ch, [f \in {fn} |-> st]))
          ELSE data[i]]
  ELSE Append(data, Upd(dpath, [f \in {fn} |-> st]))

RECURSIVE Staged_all_first(_, _, _, _, _, _)
\* the replace-all rewrites applied before the first-occurrence ones
Staged_all_first(repl, repl_all, incl, excl, it, data) ==
  IF it = <<>> THEN data
  ELSE LET x   == it[1]
           fp  == SubEach(repl, SubEach(repl_all, x.path, -1), 1)
           nxt == IF incl # "" /\ ~re_search(incl, x.path) THEN data
                  ELSE IF excl # "" /\ re_search(excl, x.path) THEN data
                  ELSE Stage(data, PathParent(fp), PathName(fp), x.st)
       IN  Staged_all_first(repl, repl_all, incl, excl, Tail(it), nxt)

RECURSIVE Staged(_, _, _, _, _, _)
Staged(repl, repl_all, incl, excl, it, data) ==
  IF it = <<>> THEN data
  ELSE LET x   == it[1]
           fp  == SubEach(repl_all, SubEach(repl, x.path, 1), -1)
           nxt == IF incl # "" /\ ~re_search(incl, x.path) THEN data
                  ELSE IF excl # "" /\ re_search(excl, x.path) THEN data
                  ELSE Stage(data, PathParent(fp), PathName(fp), x.st)
       IN  Staged(repl, repl_all, incl, excl, Tail(it), nxt)

RECURSIVE UpdateAll(_, _, _)
\* the db_update calls in order; the first that fails ends the command
UpdateAll(c, data, done) ==
  IF data = <<>> THEN [ok |-> TRUE, cfg |-> c, upd |-> done]
  ELSE LET u == db_update(c, data[1].dir, data[1].ch)
       IN  IF ~u.ok THEN [ok |-> FALSE, cfg |-> u.cfg, upd |-> Append(done, data[1])]
           ELSE UpdateAll(u.cfg, Tail(data), Append(done, data[1]))

RECURSIVE SumLen(_)
SumLen(data) ==
  IF data = <<>> THEN 0
  ELSE Cardinality(DOMAIN data[1].ch) + SumLen(Tail(data))

_import(cmd, dpath, repl, repl_all, incl, excl, it) ==
  LET ds == do_something(cfg, dpath, FALSE)
  IN  /\ ~Busy
      /\ UNCHANGED <<world, probe>>
      /\ IF ds.err # "" THEN Fail(cmd, ds.err)
         ELSE \E data \in {Staged(repl, repl_all, incl, excl, it, <<>>)} :
              \E r \in {UpdateAll(cfg, data, <<>>)} :
                /\ cfg' = r.cfg
                /\ inv' = IdleInv
                /\ out' = IF r.ok
                          THEN Out(cmd, "", r.upd, <<>>,
                                   <<"IMPORTED", SumLen(data), Len(data)>>)
                          ELSE Out(cmd, "CorruptDatabase", r.upd, <<>>, <<>>)

\* the records read: up to two paths, each with the state the command gives
Records(states) == {[path |-> p, st |-> v] : p \in W.imports, v \in states}
Inputs(states) ==
  {<<x>> : x \in Records(states)}
    \cup {<<x, y>> : x \in Records(states), y \in Records(states)}

do_import_watched(dpath) ==
  \E it \in Inputs({DONE}) : _import("import-watched", dpath, <<>>, <<>>, "", "", it)

do_import_playing(dpath) ==
  \E it \in Inputs({PyInt(t) : t \in -2..MaxSecs}) :
    _import("import-playing", dpath, <<>>, <<>>, "", "", it)

(***************************************************************************)
(* Listings.  A listing reads and prints; what it printed is out.msg.      *)
(* An uncaught KeyError of _state_in_db ends the command with a traceback  *)
(* (err = "KeyError").                                                     *)
(***************************************************************************)
\* what df.open() reads: the file the name leads to
db_json(c, n) == c[resolve(c, n)]

\* db_dirs that does not pass over the symbolic links
db_dirs_with_links(c) == {n \in SidecarNames : exists(c, n)}

\* the sidecars db_dirs yields: every dir__*.json that is no symbolic link
db_dirs(c) == {n \in SidecarNames : c[n].k \in {"file", "extra"}}

\* data[dir] = [ (fn, what) with _state_in_db(what) = st ]; times is how often
\* the pair was appended to the list of its directory
_files_with_state(c, st) ==
  LET all  == UNION {{[dir |-> db_json(c, n).dir, fn |-> fn,
                       what |-> db_json(c, n).files[fn]] :
                        fn \in DOMAIN db_json(c, n).files} : n \in db_dirs(c)}
      from(x) == {n \in db_dirs(c) : /\ db_json(c, n).dir = x.dir
                                     /\ x.fn \in DOMAIN db_json(c, n).files
                                     /\ db_json(c, n).files[x.fn] = x.what}
  IN  IF \E x \in all : _state_in_db(x.what) = "KeyError"
      THEN [err |-> "KeyError", data |-> {}]
      ELSE [err |-> "",
            data |-> {[dir |-> x.dir, fn |-> x.fn, what |-> x.what,
                       times |-> Cardinality(from(x))] :
                        x \in {y \in all : _state_in_db(y.what) = st}}]

_print_files_with_state(cmd, st) ==
  /\ ~Busy
  /\ UNCHANGED <<world, probe>>
  /\ cfg' = cfg
  /\ inv' = IdleInv
  /\ \E r \in {_files_with_state(cfg, st)} :
       out' = Out(cmd, r.err, <<>>, <<>>, <<r.data>>)

do_playing_files == _print_files_with_state("playing", "playing")
do_watched_files == _print_files_with_state("watched", "done")
do_skipped_files == _print_files_with_state("skipped", "skip")

\* the states of the files the directory holds now, under a files map
dir_iter(w, dpath, fs) ==
  {[st |-> _state(fn, fs), fn |-> fn] : fn \in w.files[w.real[dpath]]}

_dir_count(it) ==
  [playing |-> Cardinality({x \in it : x.st = "playing"}),
   new     |-> Cardinality({x \in it : x.st = "new"})]

\* todo without the test that playing + new is not 0
TodoData_all(c, w) ==
  LET live == {n \in db_dirs(c) : db_json(c, n).dir \in w.dirs}
      its  == [n \in live |-> dir_iter(w, db_json(c, n).dir, db_json(c, n).files)]
  IN  IF \E n \in live : \E x \in its[n] : x.st = "KeyError"
      THEN [err |-> "KeyError", data |-> {}, nodir |-> {}]
      ELSE [err   |-> "",
            data  |-> {[dir |-> db_json(c, n).dir, playing |-> _dir_count(its[n]).playing,
                        new |-> _dir_count(its[n]).new] : n \in live},
            nodir |-> {db_json(c, n).dir : n \in db_dirs(c) \ live}]

TodoData(c, w) ==
  LET live == {n \in db_dirs(c) : db_json(c, n).dir \in w.dirs}
      its  == [n \in live |-> dir_iter(w, db_json(c, n).dir, db_json(c, n).files)]
      todo == {n \in live : _dir_count(its[n]).playing + _dir_count(its[n]).new # 0}
  IN  IF \E n \in live : \E x \in its[n] : x.st = "KeyError"
      THEN [err |-> "KeyError", data |-> {}, nodir |-> {}]
      ELSE [err   |-> "",
            data  |-> {[dir |-> db_json(c, n).dir, playing |-> _dir_count(its[n]).playing,
                        new |-> _dir_count(its[n]).new] : n \in todo},
            nodir |-> {db_json(c, n).dir : n \in db_dirs(c) \ live}]

do_todo_dirs ==
  /\ ~Busy
  /\ UNCHANGED <<world, probe>>
  /\ cfg' = cfg
  /\ inv' = IdleInv
  /\ \E r \in {TodoData(cfg, W)} :
       out' = Out("todo", r.err, <<>>, <<>>, <<r.data, r.nodir>>)

dir_dirs(w, dpath, ic) ==
  sorted_({PathName(q) : q \in {x \in w.dirs : IsAbsolute(x)
                                  /\ Len(x) = Len(dpath) + 1
                                  /\ PathParent(x) = dpath}}, ic)

Row(sd, indexed, count) ==
  [sd |-> sd, indexed |-> indexed, playing |-> count.playing, new |-> count.new]

RECURSIVE dir_iter_dirs_zero_is_none(_, _, _, _, _)
\* dir_iter_dirs that yields (None, None) for an indexed subdirectory with
\* nothing playing and nothing new
dir_iter_dirs_zero_is_none(c, w, dpath, sds, rows) ==
  IF sds = <<>> THEN [err |-> "", rows |-> rows]
  ELSE LET d  == dpath \o <<sds[1]>>
           db == db_load(c, d)
           n  == _dir_count(dir_iter(w, d, db.files))
       IN  IF ~exists(c, db_dir_file(d)) \/ (db.ok /\ n.playing + n.new = 0)
           THEN dir_iter_dirs_zero_is_none(c, w, dpath, Tail(sds),
                  Append(rows, Row(sds[1], FALSE, [playing |-> 0, new |-> 0])))
           ELSE IF ~db.ok THEN [err |-> "CorruptDatabase", rows |-> rows]
           ELSE dir_iter_dirs_zero_is_none(c, w, dpath, Tail(sds),
                  Append(rows, Row(sds[1], TRUE, n)))

RECURSIVE dir_iter_dirs(_, _, _, _, _)
\* the rows yielded (and printed) before a db_load that fails ends the command
dir_iter_dirs(c, w, dpath, sds, rows) ==
  IF sds = <<>> THEN [err |-> "", rows |-> rows]
  ELSE LET d  == dpath \o <<sds[1]>>
           db == db_load(c, d)
       IN  IF ~exists(c, db_dir_file(d))
           THEN dir_iter_dirs(c, w, dpath, Tail(sds),
                              Append(rows, Row(sds[1], FALSE, [playing |-> 0, new |-> 0])))
           ELSE IF ~db.ok THEN [err |-> "CorruptDatabase", rows |-> rows]
           ELSE dir_iter_dirs(c, w, dpath, Tail(sds),
                              Append(rows, Row(sds[1], TRUE,
                                               _dir_count(dir_iter(w, d, db.files)))))

do_list_dir_dirs(dpath, only_indexed) ==
  LET ds == do_something(cfg, dpath, FALSE)
  IN  /\ ~Busy
      /\ UNCHANGED <<world, probe>>
      /\ cfg' = cfg
      /\ inv' = IdleInv
      /\ IF ds.err # "" THEN out' = Out("ld", ds.err, <<>>, <<>>, <<>>)
         ELSE \E ic \in W.ics :
              \E r \in {dir_iter_dirs(cfg, W, dpath, dir_dirs(W, dpath, ic), <<>>)} :
                out' = Out("ld", r.err, <<>>, <<>>,
                           SelectSeq(r.rows, LAMBDA x : ~only_indexed \/ x.indexed))

do_list_dir_files(dpath) ==
  LET ds == do_something(cfg, dpath, TRUE)
  IN  /\ ~Busy
      /\ UNCHANGED <<world, probe>>
      /\ cfg' = cfg
      /\ inv' = IdleInv
      /\ IF ds.err # "" THEN out' = Out("ls", ds.err, <<>>, <<>>, <<>>)
         ELSE \E ic \in W.ics :
                out' = Out("ls", "", <<>>, <<>>,
                           [i \in 1..Len(dir_files(W, dpath, ic)) |->
                              [st |-> _state(dir_files(W, dpath, ic)[i], ds.fs),
                               fn |-> dir_files(W, dpath, ic)[i],
                               t  |-> db_t(ds.fs, dir_files(W, dpath, ic)[i])]])

(***************************************************************************)
(* Specification: the commands are run one after the other.                *)
(***************************************************************************)
Init ==
  /\ world \in WorldIds
  /\ cfg = EmptyCfg
  /\ inv = IdleInv
  /\ out = Out("", "", <<>>, <<>>, <<>>)
  /\ probe = NoProbe

Next ==
  \/ \E d \in W.cmddirs : do_mark_file(d)
  \/ \E d \in W.cmddirs : do_skip_file(d)
  \/ \E d \in W.cmddirs : do_unmark_file(d)
  \/ \E d \in W.cmddirs : do_index_dir(d)
  \/ \E d \in W.cmddirs, t \in W.targets : do_alias_dir(d, t)
  \/ \E d \in W.cmddirs, p \in W.players : do_play_file(d, p)
  \/ \E d \in W.cmddirs, p \in W.players : do_play_next(d, p)
  \/ \E d \in W.cmddirs, p \in W.players : do_play_next_new(d, p)
  \/ \E kind \in {"PlayerNotFound", "PlayerExitedAbnormally"} : PlayerFails(kind)
  \/ \E rep \in MpvReports \cup VlcReports : PlayerExits(rep)
  \/ \E rep \in MpvReports \cup VlcReports : PlayerKilled(rep)
  \/ \E yes \in BOOLEAN : Reconcile(yes)
  \/ NextFile
  \/ \E d \in W.cmddirs : do_import_watched(d)
  \/ \E d \in W.cmddirs : do_import_playing(d)

Spec == Init /\ [][Next]_vars

(***************************************************************************)
(* The play commands on their own, started from a record of /m that holds  *)
(* any states for its two files, resume points up to MaxStored included.   *)
(***************************************************************************)
StoredValues == {DONE, SKIP} \cup {PyInt(t) : t \in 1..MaxStored}
StoredMaps == UNION {[S -> StoredValues] : S \in SUBSET WorldO.files[P_m]}

InitOff ==
  /\ world = "O"
  /\ \E m \in StoredMaps :
       cfg = [EmptyCfg EXCEPT ![db_dir_file(P_m)] =
                FileEntry([dir |-> P_m, files |-> m])]
  /\ inv = IdleInv
  /\ out = Out("", "", <<>>, <<>>, <<>>)
  /\ probe = NoProbe

NextOff ==
  \/ \E d \in W.cmddirs, p \in W.players : do_play_file(d, p)
  \/ \E d \in W.cmddirs, p \in W.players : do_play_next(d, p)
  \/ \E d \in W.cmddirs, p \in W.players : do_play_next_new(d, p)
  \/ \E kind \in {"PlayerNotFound", "PlayerExitedAbnormally"} : PlayerFails(kind)
  \/ \E rep \in MpvReports : PlayerExits(rep)
  \/ \E yes \in BOOLEAN : Reconcile(yes)
  \/ NextFile

SpecOff == InitOff /\ [][NextOff]_vars

(***************************************************************************)
(* The listings, index and import over a configuration directory found as  *)
(* earlier runs, or an edit by hand, left it.  /m/more's sidecar           *)
(* is absent, a record m wrote (entries for a.mkv and for n.mkv, a file    *)
(* that is gone), or a record m did not write: an extra top-level key, a   *)
(* dir that is not /m/more, or a value that is no file state.  /m/link's   *)
(* sidecar is absent or a link to /m/more's, /gone's record outlived its   *)
(* directory.  No two records declare the same directory.                  *)
(***************************************************************************)
MapsOver(S, V) == UNION {[T -> V] : T \in SUBSET S}

GoodRecords(d, S, V) == {FileEntry([dir |-> d, files |-> m]) : m \in MapsOver(S, V)}

BadValues == {PyInt(0), PyInt(-2), UNMARK, PyNone}

BadRecords ==
  {ExtraKeyEntry([dir |-> P_more, files |-> [fn \in {"a.mkv"} |-> DONE]])}
    \cup {FileEntry([dir |-> d, files |-> [fn \in {"a.mkv"} |-> PyInt(1)]]) :
            d \in {P_link, P_gone}}
    \cup {FileEntry([dir |-> P_more, files |-> [fn \in {"a.mkv"} |-> v]]) :
            v \in BadValues}

InitList ==
  /\ world = "L"
  /\ inv = IdleInv
  /\ out = Out("", "", <<>>, <<>>, <<>>)
  /\ probe = NoProbe
  /\ \E m \in {NoEntry, FileEntry([dir |-> P_m, files |-> [fn \in {"x.mkv"} |-> PyInt(1)]])},
        more \in {NoEntry} \cup BadRecords
                   \cup GoodRecords(P_more, {"a.mkv"}, {DONE, SKIP, PyInt(1)})
                   \cup GoodRecords(P_more, {"a.mkv", "n.mkv"}, {PyInt(1)}),
        link \in {NoEntry, LinkEntry(db_dir_file(P_more))},
        sub \in {NoEntry} \cup GoodRecords(P_sub, {"a.mkv"}, {DONE, PyInt(1)}),
        gone \in {NoEntry, FileEntry([dir |-> P_gone, files |-> [fn \in {"n.mkv"} |-> PyInt(1)]])} :
       /\ link.k = "link" => more.k # "none"
       /\ cfg = [n \in SidecarNames |->
                   CASE n = db_dir_file(P_m) -> m
                     [] n = db_dir_file(P_more) -> more
                     [] n = db_dir_file(P_link) -> link
                     [] n = db_dir_file(P_sub) -> sub
                     [] n = db_dir_file(P_gone) -> gone
                     [] OTHER -> NoEntry]

NextList ==
  \/ do_playing_files
  \/ do_watched_files
  \/ do_skipped_files
  \/ do_todo_dirs
  \/ \E only_indexed \in BOOLEAN : do_list_dir_dirs(P_m, only_indexed)
  \/ \E d \in W.cmddirs : do_list_dir_files(d)
  \/ \E d \in W.cmddirs : do_index_dir(d)
  \/ do_import_watched(P_m)

SpecList == InitList /\ [][NextList]_vars

(***************************************************************************)
(* The commands that take a FILE argument, run in /m with the names of a   *)
(* file, of a subdirectory and of nothing on disk, from a record that may  *)
(* hold entries for x.mkv and for n.mkv, a file that is gone.              *)
(***************************************************************************)
InitName ==
  /\ world = "N"
  /\ inv = IdleInv
  /\ out = Out("", "", <<>>, <<>>, <<>>)
  /\ probe = NoProbe
  /\ \E m \in {NoEntry} \cup GoodRecords(P_m, {"x.mkv", "n.mkv"}, {DONE, PyInt(1)}) :
       cfg = [EmptyCfg EXCEPT ![db_dir_file(P_m)] = m]

NextName ==
  \/ \E d \in W.cmddirs : do_mark_file(d)
  \/ \E d \in W.cmddirs : do_skip_file(d)
  \/ \E d \in W.cmddirs : do_unmark_file(d)
  \/ \E d \in W.cmddirs, p \in W.players : do_play_file(d, p)
  \/ \E kind \in {"PlayerNotFound", "PlayerExitedAbnormally"} : PlayerFails(kind)
  \/ \E rep \in MpvReports : PlayerExits(rep)
  \/ \E yes \in BOOLEAN : Reconcile(yes)
  \/ NextFile

SpecName == InitName /\ [][NextName]_vars

(***************************************************************************)
(* Import on its own: one or two lines of stdin, up to two --replace and   *)
(* one --replace-all rules, --include and --exclude, held in probe; the    *)
(* patterns are names of path components.  /m/more/more has the component  *)
(* more twice.                                                             *)
(***************************************************************************)
ImpPaths == {P_more \o <<"a.mkv">>, P_more \o <<"more">>, P_sub \o <<"a.mkv">>}

ImpLines == {<<x>> : x \in ImpPaths} \cup {<<x, y>> : x \in ImpPaths, y \in ImpPaths}

ImpRules == {<<"more", "sub">>, <<"sub", "link">>, <<"link", "more">>}

ImpRepl == {<<>>} \cup {<<r>> : r \in ImpRules}
             \cup {<<r, q>> : r \in ImpRules, q \in ImpRules}

ImpReplAll == {<<>>} \cup {<<r>> : r \in ImpRules}

ImpPatterns == {"", "more", "sub"}

InitImp ==
  /\ world = "C"
  /\ cfg = EmptyCfg
  /\ inv = IdleInv
  /\ out = Out("", "", <<>>, <<>>, <<>>)
  /\ probe \in [repl : ImpRepl, repl_all : ImpReplAll, incl : ImpPatterns,
                 excl : ImpPatterns, it : ImpLines]

\* the state line i is read with: import-playing reads line i with the time i
LineState(cmd, i) == IF cmd = "import-watched" THEN DONE ELSE PyInt(i)

\* import-watched and import-playing run with the options and the lines of
\* probe
ImportProbe(cmd) ==
  _import(cmd, P_m, probe.repl, probe.repl_all, probe.incl, probe.excl,
          [i \in DOMAIN probe.it |->
             [path |-> probe.it[i], st |-> LineState(cmd, i)]])

NextImp ==
  \/ ImportProbe("import-watched")
  \/ ImportProbe("import-playing")

SpecImp == InitImp /\ [][NextImp]_vars

(***************************************************************************)
(* The selector on its own: _files_from_spec applied once to a number list *)
(* of up to MaxParts parts over 0..MaxIndex, or to a word and a files map  *)
(* over the five files of world "S".                                       *)
(***************************************************************************)
ProbeParts == {<<a, b>> : a \in 0..MaxIndex, b \in 0..MaxIndex}
ProbeLists == UNION {[1..n -> ProbeParts] : n \in 1..MaxParts}
ProbeValues == {DONE, SKIP} \cup {PyInt(t) : t \in 1..MaxProbeSecs}
ProbeMaps ==
  UNION {[S -> ProbeValues] : S \in SUBSET WorldS.files[P_m]}

InitSel ==
  /\ world = "S"
  /\ cfg = EmptyCfg
  /\ inv = IdleInv
  /\ out = Out("", "", <<>>, <<>>, <<>>)
  /\ \/ \E ps \in ProbeLists, ic \in BOOLEAN :
          probe = [spec |-> NumSpec(ps), ic |-> ic, fs |-> EmptyFiles,
                   done |-> FALSE, res |-> Sel("", <<>>)]
     \/ \E w \in STATES \cup {"all"}, fs \in ProbeMaps, ic \in BOOLEAN :
          probe = [spec |-> WordSpec(w), ic |-> ic, fs |-> fs,
                   done |-> FALSE, res |-> Sel("", <<>>)]

Resolve ==
  /\ ~probe.done
  /\ probe' = [probe EXCEPT
                 !.done = TRUE,
                 !.res = _files_from_spec(W, P_m, probe.fs, probe.spec, TRUE,
                                          probe.ic)]
  /\ UNCHANGED <<world, cfg, inv, out>>

NextSel == Resolve

SpecSel == InitSel /\ [][NextSel]_vars

(***************************************************************************)
(* What is on disk, read without the program: the sidecar entry a          *)
(* directory's sidecar name leads to, and a value being a file state.      *)
(***************************************************************************)
Stored(c, d) == c[resolve(c, db_dir_file(d))]

StoredFiles(c, d) ==
  IF Stored(c, d).k = "file" THEN Stored(c, d).files ELSE EmptyFiles

IsDone(v) == v.ty = "bool" /\ v.n = 1
IsSkip(v) == v.ty = "int" /\ v.n = -1
IsPlaying(v) == v.ty = "int" /\ v.n > 0
IsFileState(v) == IsDone(v) \/ IsSkip(v) \/ IsPlaying(v)
IsUnmark(v) == v.ty = "bool" /\ v.n = 0

\* the directories a sidecar can stand for
SidecarDirs == {n[2] : n \in SidecarNames}

(***************************************************************************)
(* C1: every value of every persisted files map is Done (the boolean       *)
(* true), Playing(t) with an integer t > 0, or Skip (the integer -1); the  *)
(* boolean false, 0 and other negative integers are never on disk.         *)
(***************************************************************************)
C1_ValuesOnDisk ==
  \A n \in SidecarNames :
    cfg[n].k = "file" =>
      \A fn \in DOMAIN cfg[n].files : IsFileState(cfg[n].files[fn])

\* an import whose value -2 was refused, next to a record that holds a
\* position written earlier
C1_Witness ==
  /\ out.cmd = "import-playing"
  /\ out.err = "CorruptDatabase"
  /\ \E ch \in Range(out.upd) : \E fn \in DOMAIN ch.ch : ch.ch[fn] = PyInt(-2)
  /\ \E n \in SidecarNames :
       cfg[n].k = "file" /\ \E fn \in DOMAIN cfg[n].files : IsPlaying(cfg[n].files[fn])

(***************************************************************************)
(* C2: a successful update(directory, changes) leaves on disk the overlay  *)
(* of the changes on the entries that were there: a key of the changes     *)
(* with a file state has that state, a key of the changes with the unmark  *)
(* sentinel is absent, and every other key is as it was.                   *)
(***************************************************************************)
C2_Overlay(u, old, new) ==
  \A fn \in FileNames :
    IF fn \in DOMAIN u.ch
    THEN /\ IsFileState(u.ch[fn]) => fn \in DOMAIN new /\ new[fn] = u.ch[fn]
         /\ IsUnmark(u.ch[fn]) => fn \notin DOMAIN new
    ELSE /\ fn \in DOMAIN new <=> fn \in DOMAIN old
         /\ fn \in DOMAIN old => new[fn] = old[fn]

C2_UpdateOverlays ==
  [][(out'.err = "" /\ Len(out'.upd) = 1) =>
       C2_Overlay(out'.upd[1], StoredFiles(cfg, out'.upd[1].dir),
                  StoredFiles(cfg', out'.upd[1].dir))]_vars

\* an unmark that removed a key and left another key's state in place
C2_Witness ==
  /\ out.cmd = "unmark"
  /\ out.err = ""
  /\ Len(out.upd) = 1
  /\ \E fn \in DOMAIN out.upd[1].ch : IsUnmark(out.upd[1].ch[fn])
  /\ StoredFiles(cfg, out.upd[1].dir) # EmptyFiles

(***************************************************************************)
(* C3: once A is an alias of B, A's sidecar stays a link, loading A gives  *)
(* the same files map as loading B, and an update through A changes the    *)
(* record behind B.                                                        *)
(***************************************************************************)
C3_AliasShares ==
  [][\A a \in SidecarDirs :
       /\ is_symlink(cfg, db_dir_file(a)) =>
            cfg'[db_dir_file(a)] = cfg[db_dir_file(a)]
       /\ is_symlink(cfg', db_dir_file(a)) =>
            LET b == cfg'[db_dir_file(a)].to[2]
            IN  /\ db_load(cfg', a).ok
                /\ db_load(cfg', b).ok
                /\ db_load(cfg', a).files = db_load(cfg', b).files
                /\ (out'.err = "" /\ Len(out'.upd) = 1 /\ out'.upd[1].dir = a) =>
                     C2_Overlay(out'.upd[1], StoredFiles(cfg, b),
                                db_load(cfg', b).files)]_vars

\* a mark made through the alias /m/link, read back through /m/more
C3_Witness ==
  /\ is_symlink(cfg, db_dir_file(P_link))
  /\ out.cmd = "mark"
  /\ out.err = ""
  /\ Len(out.upd) = 1
  /\ out.upd[1].dir = P_link
  /\ db_load(cfg, P_more).files = [fn \in {"a.mkv"} |-> DONE]

(***************************************************************************)
(* C4 as stated: when A's sidecar is a link to B's sidecar, load(A)        *)
(* succeeds and returns a record whose directory is B.                     *)
(***************************************************************************)
C4_LoadGivesTarget ==
  \A a \in SidecarDirs :
    is_symlink(cfg, db_dir_file(a)) =>
      /\ db_load(cfg, a).ok
      /\ db_load(cfg, a).dir = cfg[db_dir_file(a)].to[2]

(***************************************************************************)
(* C4 amended: when A's sidecar is a link to B's sidecar, load(A) succeeds *)
(* and returns a record whose directory is the directory of load(B), which *)
(* is B when B's sidecar is a regular file, and is never A.                *)
(***************************************************************************)
C4_LoadGivesTargetsRecord ==
  \A a \in SidecarDirs :
    is_symlink(cfg, db_dir_file(a)) =>
      LET b == cfg[db_dir_file(a)].to[2]
      IN  /\ db_load(cfg, a).ok
          /\ db_load(cfg, a).dir = db_load(cfg, b).dir
          /\ cfg[db_dir_file(b)].k = "file" => db_load(cfg, a).dir = b
          /\ db_load(cfg, a).dir # a

\* /m/link2 is an alias of /m/link, itself an alias of /m/more
C4_Witness ==
  /\ is_symlink(cfg, db_dir_file(P_link2))
  /\ cfg[db_dir_file(P_link2)].to = db_dir_file(P_link)
  /\ is_symlink(cfg, db_dir_file(P_link))
  /\ db_load(cfg, P_link2).dir = P_more

(***************************************************************************)
(* C5: create_alias(source, target) writes the link from the source's      *)
(* sidecar to the target's exactly when the target is an existing          *)
(* directory, is given as an absolute path, resolves to the same real      *)
(* directory as the source, the source has no sidecar and the target has   *)
(* one; when a condition fails the error of a failed condition is reported *)
(* and the configuration directory is left as it was.                      *)
(***************************************************************************)
C5_Failed(d, t) ==
  {e \in {"NotADirectory", "RelativePath", "PathMismatch", "AlreadyExists",
          "NotIndexed"} :
     \/ e = "NotADirectory" /\ t \notin W.dirs
     \/ e = "RelativePath" /\ t[1] # "/"
     \/ e = "PathMismatch" /\ (t \notin W.dirs \/ W.real[d] # W.real[t])
     \/ e = "AlreadyExists" /\ cfg[db_dir_file(d)].k # "none"
     \/ e = "NotIndexed" /\ cfg[db_dir_file(t)].k = "none"}

C5_AliasIffPreconditions ==
  [][\A d \in W.cmddirs \cap W.dirs, t \in W.targets :
       (out'.cmd = "alias" /\ do_alias_dir(d, t)) =>
         IF C5_Failed(d, t) = {}
         THEN /\ out'.err = ""
              /\ cfg' = [cfg EXCEPT ![db_dir_file(d)] =
                           [k |-> "link", dir |-> <<>>, files |-> EmptyFiles,
                            to |-> db_dir_file(t)]]
         ELSE /\ out'.err \in C5_Failed(d, t)
              /\ cfg' = cfg]_vars

\* /m/link has become an alias of the indexed /m/more
C5_Witness ==
  /\ out.cmd = "alias"
  /\ out.err = ""
  /\ cfg[db_dir_file(P_link)].k = "link"
  /\ cfg[db_dir_file(P_link)].to = db_dir_file(P_more)
  /\ cfg[db_dir_file(P_more)].k = "file"

(***************************************************************************)
(* C6 as stated: after a play, next or next-new command has ended with a   *)
(* failed launch, the configuration directory is as it was before the      *)
(* command.                                                                *)
(***************************************************************************)
C6_FailedCommandChangesNothing ==
  inv.pc = "Failed" => cfg = inv.cfg0

(***************************************************************************)
(* C6 amended: a failed launch reports an error and writes nothing: the    *)
(* configuration directory after it is the one before that launch, which   *)
(* is the one before the command when no earlier file of the selection was *)
(* played and written, as is always so for next and next-new.              *)
(***************************************************************************)
C6_FailedLaunchWritesNothing ==
  [][(inv.pc = "Launching" /\ inv'.pc = "Failed") =>
       /\ out'.err \in {"PlayerNotFound", "PlayerExitedAbnormally"}
       /\ out'.upd = <<>>
       /\ cfg' = cfg
       /\ inv.played = 0 => cfg' = inv.cfg0
       /\ inv.cmd \in {"next", "next-new"} => inv.played = 0]_vars

\* the second file of a play command failed to launch after the first was
\* played and written
C6_Witness ==
  /\ inv.pc = "Failed"
  /\ inv.cmd = "play"
  /\ inv.played = 1
  /\ out.err = "PlayerExitedAbnormally"
  /\ cfg # inv.cfg0

(***************************************************************************)
(* C7: when the selection of a mark, skip, unmark or play command fails    *)
(* (invalid expression, index out of range, path outside the directory,    *)
(* nested path, not a regular file) the configuration directory is         *)
(* unchanged, nothing is written and no player is launched.                *)
(***************************************************************************)
C7_SelectionErrors ==
  {"InvalidSelection", "OutOfRange", "PathEscape", "NotInDirectory", "NotAFile"}

C7_FailedSelectionNoEffect ==
  [][(out'.cmd \in {"mark", "skip", "unmark", "play"}
      /\ out'.err \in C7_SelectionErrors) =>
       /\ cfg' = cfg
       /\ out'.upd = <<>>
       /\ out'.launch = <<>>
       /\ inv'.pc = "Idle"]_vars

\* a mark whose number list went out of range in an indexed directory
C7_Witness ==
  /\ out.cmd = "mark"
  /\ out.err = "OutOfRange"
  /\ cfg[db_dir_file(P_m)].k = "file"
  /\ inv.pc = "Idle"

(***************************************************************************)
(* The files of the probed directory in the current sort order, and the    *)
(* place of a file in it.                                                  *)
(***************************************************************************)
ProbeFiles == dir_files(W, P_m, probe.ic)

ProbePos(fn) == CHOOSE i \in 1..Len(ProbeFiles) : ProbeFiles[i] = fn

\* a sequence of enumerated files, each once, in the current sort order
ProbeInOrder(fs) ==
  /\ Range(fs) \subseteq Range(ProbeFiles)
  /\ \A i, j \in 1..Len(fs) : i < j => ProbePos(fs[i]) < ProbePos(fs[j])

(***************************************************************************)
(* C8: a list of 1-based numbers and ranges a-b over the N enumerated      *)
(* files selects exactly the files at the positions named, each once and   *)
(* in the current sort order whatever the order of the parts; a number     *)
(* outside 1..N anywhere in the list gives OutOfRange.                     *)
(***************************************************************************)
C8_Numbers ==
  (probe.done /\ probe.spec.k = "nums") =>
    LET N     == Len(ProbeFiles)
        parts == Range(probe.spec.parts)
        named == UNION {{p[1], p[2]} : p \in parts}
        pos   == UNION {p[1]..p[2] : p \in parts}
    IN  IF named \subseteq 1..N
        THEN /\ probe.res.err = ""
             /\ ProbeInOrder(probe.res.files)
             /\ {ProbePos(fn) : fn \in Range(probe.res.files)} = pos
        ELSE probe.res = Sel("OutOfRange", <<>>)

\* "3,2-3" over the five files: positions 2 and 3, once each, in order
C8_Witness ==
  /\ probe.done
  /\ probe.spec = NumSpec(<<<<3, 3>>, <<2, 3>>>>)
  /\ ~probe.ic
  /\ probe.res = Sel("", <<"a.mkv", "x.mkv">>)

(***************************************************************************)
(* C9: a state keyword selects exactly the enumerated files classified as  *)
(* that keyword (done for the done marker, skip for -1, playing for an     *)
(* integer > 0, 1 included, new for an absent key), and "all" selects      *)
(* every enumerated file.                                                  *)
(***************************************************************************)
C9_Class(fn, fs) ==
  IF fn \notin DOMAIN fs THEN "new"
  ELSE IF IsDone(fs[fn]) THEN "done"
  ELSE IF IsSkip(fs[fn]) THEN "skip"
  ELSE IF IsPlaying(fs[fn]) THEN "playing"
  ELSE "none"

C9_Keywords ==
  (probe.done /\ probe.spec.k = "word") =>
    /\ probe.res.err = ""
    /\ ProbeInOrder(probe.res.files)
    /\ Range(probe.res.files) =
         {fn \in Range(ProbeFiles) :
            probe.spec.w = "all" \/ C9_Class(fn, probe.fs) = probe.spec.w}

\* "playing" with x.mkv at second 1 and y.mkv done selects x.mkv alone
C9_Witness ==
  /\ probe.done
  /\ probe.spec.k = "word"
  /\ probe.spec.w = "playing"
  /\ probe.fs = [fn \in {"x.mkv", "y.mkv"} |->
                   IF fn = "x.mkv" THEN PyInt(1) ELSE PyBool(TRUE)]
  /\ probe.res = Sel("", <<"x.mkv">>)

(***************************************************************************)
(* C10 as stated, with the margin of 5 seconds: mpv's report of elapsed    *)
(* e > 0 out of a total of at least e + 5 is written as Playing(e), and a  *)
(* report whose elapsed is within 5 seconds of the total is written as     *)
(* Done.                                                                   *)
(***************************************************************************)
C10_Written(new) ==
  IF inv.cur \in DOMAIN new THEN new[inv.cur] ELSE PyNone

C10_AtLeastMargin ==
  [][(inv.pc = "Reconciling" /\ inv.player = "mpv" /\ out'.err = "") =>
       LET e   == inv.rep.pos
           tot == inv.rep.tot
           v   == C10_Written(StoredFiles(cfg', inv.dir))
       IN  /\ (e > 0 /\ tot >= e + 5) => v = [ty |-> "int", n |-> e]
           /\ (e <= tot /\ tot - e <= 5) => IsDone(v)]_vars

(***************************************************************************)
(* C10 amended: mpv's report of elapsed e > 0 out of a total of more than  *)
(* e + 5 is written as Playing(e), and a report whose elapsed is within 5  *)
(* seconds of the total (total <= e + 5) is written as Done.               *)
(***************************************************************************)
C10_MoreThanMargin ==
  [][(inv.pc = "Reconciling" /\ inv.player = "mpv" /\ out'.err = "") =>
       LET e   == inv.rep.pos
           tot == inv.rep.tot
           v   == C10_Written(StoredFiles(cfg', inv.dir))
       IN  /\ (e > 0 /\ tot > e + 5) => v = [ty |-> "int", n |-> e]
           /\ (e <= tot /\ tot - e <= 5) => IsDone(v)]_vars

\* mpv stopped early and the position was written
C10_Witness ==
  /\ inv.pc = "Continuing"
  /\ inv.player = "mpv"
  /\ Len(out.upd) = 1
  /\ IsPlaying(out.upd[1].ch[inv.cur])
  /\ C10_Written(StoredFiles(cfg, inv.dir)) = out.upd[1].ch[inv.cur]

(***************************************************************************)
(* C11: vlc's position p > 0 for the played file is written as Playing(p)  *)
(* and nobody is asked; with no position, or position 0, the user is       *)
(* asked, and the file is written as Done on a yes and its entry is        *)
(* removed on a no.                                                        *)
(***************************************************************************)
C11_VlcPositionOrPrompt ==
  [][(inv.pc = "Reconciling" /\ inv.player = "vlc" /\ out'.err = "") =>
       LET p == inv.rep.pos
           new == StoredFiles(cfg', inv.dir)
       IN  IF p > 0
           THEN /\ out'.msg = <<>>
                /\ inv.cur \in DOMAIN new
                /\ new[inv.cur] = [ty |-> "int", n |-> p]
           ELSE /\ Len(out'.msg) = 2
                /\ out'.msg[1] = "PROMPT"
                /\ out'.msg[2] => inv.cur \in DOMAIN new /\ IsDone(new[inv.cur])
                /\ ~out'.msg[2] => inv.cur \notin DOMAIN new]_vars

\* vlc reported nothing for a file that had a state, the user said no, and
\* the entry is gone
C11_Witness ==
  /\ inv.pc = "Unmarked"
  /\ inv.player = "vlc"
  /\ out.msg = <<"PROMPT", FALSE>>
  /\ inv.cur \in DOMAIN StoredFiles(inv.cfg0, inv.dir)
  /\ inv.cur \notin DOMAIN StoredFiles(cfg, inv.dir)

(***************************************************************************)
(* C12: the start offset handed to the player is 0 when the file has no    *)
(* stored resume point (new, done or skip) and max(0, t - 5) when it is    *)
(* Playing(t); it is never negative.                                       *)
(***************************************************************************)
C12_StartOffset ==
  [][Len(out'.launch) = 1 =>
       LET l  == out'.launch[1]
           fs == StoredFiles(cfg', inv'.dir)
       IN  /\ l.fn = inv'.cur
           /\ l.off >= 0
           /\ IF l.fn \in DOMAIN fs /\ IsPlaying(fs[l.fn])
              THEN l.off = (IF fs[l.fn].n > 5 THEN fs[l.fn].n - 5 ELSE 0)
              ELSE l.off = 0]_vars

\* a file stored as Playing(7) is launched at second 2
C12_Witness ==
  /\ inv.pc = "Launching"
  /\ Len(out.launch) = 1
  /\ out.launch[1].off = 2
  /\ StoredFiles(cfg, inv.dir)[inv.cur] = PyInt(7)

(***************************************************************************)
(* C13: next plays the first file, in the order of the enumeration, that   *)
(* is neither done nor skip; next-new the first that is neither done, skip *)
(* nor playing.  When there is none the command says that there is nothing *)
(* to play, launches no player and leaves the database as it was.          *)
(***************************************************************************)
C13_Files == dir_files(W, P_m, FALSE)

C13_Candidates(excluded) ==
  {i \in 1..Len(C13_Files) :
     C9_Class(C13_Files[i], StoredFiles(cfg, P_m)) \notin excluded}

C13_NextUnfinished ==
  [][(~Busy /\ out'.cmd \in {"next", "next-new"} /\ out'.err = "") =>
       LET cand == C13_Candidates(IF out'.cmd = "next" THEN {"done", "skip"}
                                  ELSE {"done", "skip", "playing"})
       IN  IF cand = {}
           THEN /\ out'.msg = <<"NOFILES">>
                /\ out'.launch = <<>>
                /\ inv'.pc = "Idle"
                /\ cfg' = cfg
           ELSE /\ inv'.pc = "Launching"
                /\ Len(out'.launch) = 1
                /\ \E i \in cand :
                     /\ \A j \in cand : i <= j
                     /\ inv'.cur = C13_Files[i]
                     /\ out'.launch[1].fn = C13_Files[i]]_vars

\* next-new passes over x.mkv, which is playing, and launches y.mkv
C13_Witness ==
  /\ out.cmd = "next-new"
  /\ inv.pc = "Launching"
  /\ inv.cur = "y.mkv"
  /\ C9_Class("x.mkv", StoredFiles(cfg, P_m)) = "playing"

(***************************************************************************)
(* The records of the configuration directory that are no links, and the   *)
(* counts of a directory: over the entries of a stored map, and over the   *)
(* files the directory holds now.                                          *)
(***************************************************************************)
Records_ == {n \in SidecarNames : cfg[n].k \notin {"none", "link"}}

StoredCount(fs, st) ==
  Cardinality({fn \in DOMAIN fs : C9_Class(fn, fs) = st})

LiveCount(d, fs, st) ==
  Cardinality({fn \in W.files[W.real[d]] : C9_Class(fn, fs) = st})

(***************************************************************************)
(* C14 as stated: todo lists a known directory that exists with the number *)
(* of playing entries of its stored files map, whatever the directory      *)
(* holds now, and only if playing + new is not 0; a record whose directory *)
(* is gone is warned about and not listed.                                 *)
(***************************************************************************)
C14_TodoFromStoredMap ==
  [][(out'.cmd = "todo" /\ out'.err = "") =>
       \A n \in Records_ :
         LET d == cfg[n].dir
         IN  IF d \in W.dirs
             THEN \A x \in out'.msg[1] :
                    x.dir = d =>
                      /\ x.playing = StoredCount(cfg[n].files, "playing")
                      /\ x.playing + x.new # 0
             ELSE /\ d \in out'.msg[2]
                  /\ \A x \in out'.msg[1] : x.dir # d]_vars

(***************************************************************************)
(* C14 amended: todo counts, for every known directory that exists, the    *)
(* files the directory holds now, classified by the record's stored files  *)
(* map (playing: stored as playing; new: no entry); entries for files that *)
(* are gone count for nothing.  The directory is listed with these counts  *)
(* exactly when playing + new is not 0; a record whose directory is gone   *)
(* is warned about and not listed.                                         *)
(***************************************************************************)
C14_TodoFromLiveFiles ==
  [][(out'.cmd = "todo" /\ out'.err = "") =>
       /\ \A x \in out'.msg[1] : \E n \in Records_ : cfg[n].dir = x.dir
       /\ \A n \in Records_ :
            LET d == cfg[n].dir
                p == LiveCount(d, cfg[n].files, "playing")
                w == LiveCount(d, cfg[n].files, "new")
            IN  IF d \in W.dirs
                THEN /\ p + w # 0 =>
                          [dir |-> d, playing |-> p, new |-> w] \in out'.msg[1]
                     /\ p + w = 0 => \A x \in out'.msg[1] : x.dir # d
                     /\ d \notin out'.msg[2]
                ELSE /\ d \in out'.msg[2]
                     /\ \A x \in out'.msg[1] : x.dir # d]_vars

\* /m/more's record holds a position for n.mkv, which is gone: todo lists
\* /m/more with no playing and two new files, and warns about /gone
C14_Witness ==
  /\ out.cmd = "todo"
  /\ out.err = ""
  /\ "n.mkv" \in DOMAIN StoredFiles(cfg, P_more)
  /\ [dir |-> P_more, playing |-> 0, new |-> 2] \in out.msg[1]
  /\ P_gone \in out.msg[2]

(***************************************************************************)
(* The subdirectories of /m, and whether a directory has a sidecar record  *)
(* (its own, or through a link the record of another directory).           *)
(***************************************************************************)
SubDirs == {sd \in {"link", "more", "sub"} : P_m \o <<sd>> \in W.dirs}

SidecarOf(c, d) ==
  LET n == db_dir_file(d) IN IF c[n].k = "link" THEN c[n].to ELSE n

HasSidecar(c, d) == c[SidecarOf(c, d)].k # "none"

(***************************************************************************)
(* C15: a listing of /m's subdirectories that ends without error gives,    *)
(* for a subdirectory without a sidecar record, the unindexed marker and   *)
(* for one with a record the pair (playing, new) counted over its files,   *)
(* (0, 0) included; it shows every subdirectory, or with -x every indexed  *)
(* one.  index of a directory without a record creates a record with an    *)
(* empty files map, index of a directory with a record leaves its files    *)
(* map as it was.                                                          *)
(***************************************************************************)
C15_SummarizeAndIndex ==
  [][/\ (out'.cmd = "ld" /\ out'.err = "") =>
          LET rows == Range(out'.msg)
              idx  == {sd \in SubDirs : HasSidecar(cfg, P_m \o <<sd>>)}
          IN  /\ \A x \in rows : x.sd \in SubDirs
              /\ \A sd \in SubDirs \ idx :
                    \A x \in rows : x.sd = sd => ~x.indexed
              /\ \A sd \in idx :
                    LET d  == P_m \o <<sd>>
                        fs == cfg[SidecarOf(cfg, d)].files
                    IN  /\ [sd |-> sd, indexed |-> TRUE,
                             playing |-> LiveCount(d, fs, "playing"),
                             new |-> LiveCount(d, fs, "new")] \in rows
                        /\ \A x \in rows : x.sd = sd => x.indexed
              /\ Len(out'.msg) \in {Cardinality(SubDirs), Cardinality(idx)}
     /\ (out'.cmd = "index" /\ out'.err = "") =>
          LET d == out'.upd[1].dir
          IN  IF HasSidecar(cfg, d)
              THEN /\ HasSidecar(cfg', d)
                   /\ cfg'[SidecarOf(cfg', d)].files = cfg[SidecarOf(cfg, d)].files
              ELSE cfg'[db_dir_file(d)] =
                     [k |-> "file", dir |-> d, files |-> EmptyFiles, to |-> <<>>]]_vars

\* /m/link was never indexed, /m/more was and both its files are new,
\* /m/sub was and its one file is done: the marker, (0, 2) and (0, 0)
C15_Witness ==
  /\ out.cmd = "ld"
  /\ out.err = ""
  /\ cfg[db_dir_file(P_more)].files = EmptyFiles
  /\ [sd |-> "link", indexed |-> FALSE, playing |-> 0, new |-> 0] \in Range(out.msg)
  /\ [sd |-> "more", indexed |-> TRUE, playing |-> 0, new |-> 2] \in Range(out.msg)
  /\ [sd |-> "sub", indexed |-> TRUE, playing |-> 0, new |-> 0] \in Range(out.msg)

(***************************************************************************)
(* The state a cross-directory listing is about, and the directories that  *)
(* are aliases: their sidecar is a link to a record that declares the      *)
(* directory its sidecar is named for, as every record the program writes. *)
(***************************************************************************)
ListedState(cmd) ==
  CASE cmd = "playing" -> "playing" [] cmd = "watched" -> "done"
    [] cmd = "skipped" -> "skip" [] OTHER -> "none"

AliasSources ==
  {d \in SidecarDirs :
     LET a == cfg[db_dir_file(d)]
     IN  /\ a.k = "link"
         /\ cfg[a.to].k = "file"
         /\ db_dir_file(cfg[a.to].dir) = a.to}

(***************************************************************************)
(* C16: playing, watched and skipped show every entry in the asked state   *)
(* of every record that is no link once, under the directory the record    *)
(* declares, and nothing else; neither they nor todo show anything under   *)
(* the path of an alias, whose record is shown under the target's path.    *)
(***************************************************************************)
C16_AliasesSkipped ==
  [][/\ (out'.cmd \in {"playing", "watched", "skipped"} /\ out'.err = "") =>
          /\ \A n \in Records_ : \A fn \in DOMAIN cfg[n].files :
                C9_Class(fn, cfg[n].files) = ListedState(out'.cmd) =>
                  [dir |-> cfg[n].dir, fn |-> fn, what |-> cfg[n].files[fn],
                   times |-> 1] \in out'.msg[1]
          /\ \A x \in out'.msg[1] :
                /\ x.times = 1
                /\ x.dir \notin AliasSources
                /\ \E n \in Records_ :
                     /\ cfg[n].dir = x.dir
                     /\ x.fn \in DOMAIN cfg[n].files
                     /\ cfg[n].files[x.fn] = x.what
                     /\ C9_Class(x.fn, cfg[n].files) = ListedState(out'.cmd)
     /\ (out'.cmd = "todo" /\ out'.err = "") =>
          /\ \A x \in out'.msg[1] : x.dir \notin AliasSources
          /\ \A d \in out'.msg[2] : d \notin AliasSources]_vars

\* /m/link is an alias of /m/more: a.mkv, watched, is shown once, under
\* /m/more
C16_Witness ==
  /\ out.cmd = "watched"
  /\ out.err = ""
  /\ P_link \in AliasSources
  /\ [dir |-> P_more, fn |-> "a.mkv", what |-> DONE, times |-> 1] \in out.msg[1]

(***************************************************************************)
(* C17 as stated: load(d) fails with CorruptDatabase whenever the sidecar has a key  *)
(* besides dir and files, or declares a directory that is not the expected *)
(* one (d, or when d's sidecar is a link the directory the link's target   *)
(* is the sidecar of), or holds a value that is no file state; without a   *)
(* sidecar it returns an empty record that declares d, and otherwise the   *)
(* stored record.                                                          *)
(***************************************************************************)
C17_LoadChecks ==
  \A d \in W.cmddirs :
    LET e        == cfg[SidecarOf(cfg, d)]
        expected == IF cfg[db_dir_file(d)].k = "link"
                    THEN SidecarOf(cfg, d)[2] ELSE d
        r        == db_load(cfg, d)
    IN  IF e.k = "none"
        THEN r.ok /\ r.dir = d /\ r.files = EmptyFiles
        ELSE IF \/ e.k # "file"
                \/ e.dir # expected
                \/ \E fn \in DOMAIN e.files : ~IsFileState(e.files[fn])
        THEN ~r.ok
        ELSE r.ok /\ r.dir = e.dir /\ r.files = e.files

(***************************************************************************)
(* C17 amended: load(d) fails with CorruptDatabase whenever the sidecar    *)
(* has a key besides dir and files, or declares a directory that is        *)
(* neither d nor, when d's sidecar is a link, the directory the link's     *)
(* target is the sidecar of, or holds a value that is no file state (0, a  *)
(* negative integer other than -1, false and null are rejected); without a *)
(* sidecar it returns an empty record that declares d, and otherwise the   *)
(* stored record.                                                          *)
(***************************************************************************)
C17_LoadChecksEitherDir ==
  \A d \in W.cmddirs :
    LET e        == cfg[SidecarOf(cfg, d)]
        expected == IF cfg[db_dir_file(d)].k = "link"
                    THEN {d, SidecarOf(cfg, d)[2]} ELSE {d}
        r        == db_load(cfg, d)
    IN  IF e.k = "none"
        THEN r.ok /\ r.dir = d /\ r.files = EmptyFiles
        ELSE IF \/ e.k # "file"
                \/ e.dir \notin expected
                \/ \E fn \in DOMAIN e.files : ~IsFileState(e.files[fn])
        THEN ~r.ok
        ELSE r.ok /\ r.dir = e.dir /\ r.files = e.files

\* /m/link's sidecar is a link to /m/more's, whose record declares /m/link:
\* the listing of /m/link's two files loads it, a load of /m/more fails
C17_Witness ==
  /\ out.cmd = "ls"
  /\ out.err = ""
  /\ Len(out.msg) = 2
  /\ out.msg[1] = [st |-> "playing", fn |-> "a.mkv", t |-> 1]
  /\ cfg[db_dir_file(P_link)].k = "link"
  /\ cfg[db_dir_file(P_more)].dir = P_link
  /\ ~db_load(cfg, P_more).ok

(***************************************************************************)
(* A record is sound when it has the two keys, declares the directory its  *)
(* sidecar is named for and holds file states only; a sidecar that is not  *)
(* sound is corrupt.  A directory is clear of the corrupt sidecars when it *)
(* has no sidecar or a sound one, its own or through a link.               *)
(***************************************************************************)
SoundRecord(c, n) ==
  /\ c[n].k = "file"
  /\ db_dir_file(c[n].dir) = n
  /\ \A fn \in DOMAIN c[n].files : IsFileState(c[n].files[fn])

CorruptSidecars(c) ==
  {n \in SidecarNames : c[n].k \notin {"none", "link"} /\ ~SoundRecord(c, n)}

Clear(c, d) ==
  c[SidecarOf(c, d)].k = "none" \/ SoundRecord(c, SidecarOf(c, d))

(***************************************************************************)
(* C18: with a corrupt sidecar in the configuration directory, a listing   *)
(* or index of a directory that is clear of it ends without error; an      *)
(* import updates every staged directory that is clear of it; playing,     *)
(* watched and skipped show the entries of every sound record, todo the    *)
(* row of every sound record that has something playing or new, and the    *)
(* listing of /m's subdirectories the counts of every indexed subdirectory *)
(* that is clear of it.                                                    *)
(***************************************************************************)
C18_CorruptIsLocal ==
  [][CorruptSidecars(cfg) # {} =>
       /\ \A d \in W.cmddirs :
             (Clear(cfg, d) /\ (do_list_dir_files(d) \/ do_index_dir(d))) =>
               out'.err = ""
       /\ \A it \in Inputs({DONE}) :
             _import("import-watched", P_m, <<>>, <<>>, "", "", it) =>
               \A i \in DOMAIN it :
                 LET d == PathParent(it[i].path)
                 IN  Clear(cfg, d) =>
                       /\ PathName(it[i].path) \in DOMAIN StoredFiles(cfg', d)
                       /\ StoredFiles(cfg', d)[PathName(it[i].path)] = it[i].st
       /\ out'.cmd \in {"playing", "watched", "skipped"} =>
             \A n \in Records_ : SoundRecord(cfg, n) =>
               \A fn \in DOMAIN cfg[n].files :
                 C9_Class(fn, cfg[n].files) = ListedState(out'.cmd) =>
                   [dir |-> cfg[n].dir, fn |-> fn, what |-> cfg[n].files[fn],
                    times |-> 1] \in out'.msg[1]
       /\ out'.cmd = "todo" =>
             \A n \in Records_ :
               LET d == cfg[n].dir
                   p == LiveCount(d, cfg[n].files, "playing")
                   w == LiveCount(d, cfg[n].files, "new")
               IN  (SoundRecord(cfg, n) /\ d \in W.dirs /\ p + w # 0) =>
                     [dir |-> d, playing |-> p, new |-> w] \in out'.msg[1]
       /\ out'.cmd = "ld" =>
             \A sd \in SubDirs :
               LET d  == P_m \o <<sd>>
                   fs == cfg[SidecarOf(cfg, d)].files
               IN  (HasSidecar(cfg, d) /\ Clear(cfg, d)) =>
                     [sd |-> sd, indexed |-> TRUE,
                      playing |-> LiveCount(d, fs, "playing"),
                      new |-> LiveCount(d, fs, "new")] \in Range(out'.msg)]_vars

(***************************************************************************)
(* C19: run in an existing directory with a plain file name that names     *)
(* nothing on disk, unmark ends without error: a stored entry of that name *)
(* is removed and the rest of the files map kept; a name that is no entry  *)
(* is reported as unknown (unless --quiet) and the files map is left as it *)
(* was.  mark, skip and play with a plain name that is no regular file on  *)
(* disk fail with NotAFile and change nothing.                             *)
(***************************************************************************)
C19_UnmarkToleratesMissing ==
  [][(~Busy /\ out'.cmd \in {"unmark", "mark", "skip", "play"}) =>
     \A d \in W.cmddirs \cap W.dirs :
       \A a \in {x \in CmdArgs : x.spec.k = "name" /\ Len(x.spec.p) = 1} :
         LET fn   == a.spec.p[1]
             here == W.real[d]
             old  == StoredFiles(cfg, d)
             new  == StoredFiles(cfg', d)
         IN  /\ \A quiet \in BOOLEAN :
                   (/\ fn \notin W.files[here] \cup W.nonfiles[here]
                    /\ do_unmark_file_of(d, a, quiet)) =>
                     /\ out'.err = ""
                     /\ DOMAIN new = DOMAIN old \ {fn}
                     /\ \A k \in DOMAIN new : new[k] = old[k]
                     /\ out'.msg = IF fn \in DOMAIN old \/ quiet THEN <<>>
                                   ELSE <<"IGNORE_UNK", {fn}>>
             /\ (/\ fn \notin W.files[here]
                 /\ \/ MarkOrSkipOf("mark", DONE, d, a)
                    \/ MarkOrSkipOf("skip", SKIP, d, a)
                    \/ \E p \in W.players : do_play_file_of(d, p, a)) =>
                  /\ out'.err = "NotAFile"
                  /\ cfg' = cfg
                  /\ out'.launch = <<>>]_vars

\* n.mkv is not in /m, its stored entry has just been removed by unmark
C19_Witness ==
  /\ out.cmd = "unmark"
  /\ out.err = ""
  /\ "n.mkv" \notin W.files[P_m]
  /\ Len(out.upd) = 1
  /\ out.upd[1] = Upd(P_m, [fn \in {"n.mkv"} |-> UNMARK])
  /\ "n.mkv" \notin DOMAIN StoredFiles(cfg, P_m)

(***************************************************************************)
(* The first component equal to rx replaced, every component equal to rx   *)
(* replaced, and the path a line is rewritten to by up to two              *)
(* first-occurrence rules followed by up to one replace-all rule.          *)
(***************************************************************************)
HasPart(fp, rx) == \E i \in DOMAIN fp : fp[i] = rx

FirstOnly(fp, r) ==
  [i \in DOMAIN fp |->
     IF fp[i] = r[1] /\ \A j \in 1..(i - 1) : fp[j] # r[1] THEN r[2] ELSE fp[i]]

Every(fp, r) == [i \in DOMAIN fp |-> IF fp[i] = r[1] THEN r[2] ELSE fp[i]]

C20_Rewritten(fp) ==
  LET f1 == IF Len(probe.repl) >= 1 THEN FirstOnly(fp, probe.repl[1]) ELSE fp
      f2 == IF Len(probe.repl) >= 2 THEN FirstOnly(f1, probe.repl[2]) ELSE f1
  IN  IF Len(probe.repl_all) >= 1 THEN Every(f2, probe.repl_all[1]) ELSE f2

C20_Kept ==
  {i \in DOMAIN probe.it :
     /\ probe.excl = "" \/ ~HasPart(probe.it[i], probe.excl)
     /\ probe.incl = "" \/ HasPart(probe.it[i], probe.incl)}

(***************************************************************************)
(* C20: an import that ends without error has staged, and written, the     *)
(* state of exactly the lines whose path as read has no component matching *)
(* the exclude pattern (when given) and one matching the include pattern   *)
(* (when given), each under the parent directory and the file name of its  *)
(* path after the first-occurrence rewrites in order and then the          *)
(* replace-all rewrites.                                                   *)
(***************************************************************************)
C20_ImportStages ==
  (out.cmd \in {"import-watched", "import-playing"} /\ out.err = "") =>
    LET staged == UNION {{<<out.upd[k].dir, fn>> : fn \in DOMAIN out.upd[k].ch} :
                           k \in DOMAIN out.upd}
    IN  /\ staged = {<<PathParent(C20_Rewritten(probe.it[i])),
                        PathName(C20_Rewritten(probe.it[i]))>> : i \in C20_Kept}
        /\ \A k \in DOMAIN out.upd : \A fn \in DOMAIN out.upd[k].ch :
              /\ \E i \in C20_Kept : out.upd[k].ch[fn] = LineState(out.cmd, i)
              /\ fn \in DOMAIN StoredFiles(cfg, out.upd[k].dir)
              /\ StoredFiles(cfg, out.upd[k].dir)[fn] = out.upd[k].ch[fn]

\* /m/more/more, kept because it has the component more as read, is staged as
\* more under /m/link: the first more became sub, then every sub became link
C20_Witness ==
  /\ out.cmd = "import-watched"
  /\ out.err = ""
  /\ probe.it = <<P_more \o <<"more">>>>
  /\ probe.repl = <<<<"more", "sub">>>>
  /\ probe.repl_all = <<<<"sub", "link">>>>
  /\ probe.incl = "more"
  /\ out.upd = <<Upd(P_link, [fn \in {"more"} |-> DONE])>>

(***************************************************************************)
(* The directory and file name line i is staged under, and the lines kept  *)
(* that are staged under a given pair.                                     *)
(***************************************************************************)
C21_Target(i) ==
  <<PathParent(C20_Rewritten(probe.it[i])), PathName(C20_Rewritten(probe.it[i]))>>

C21_Targets == {C21_Target(i) : i \in C20_Kept}

(***************************************************************************)
(* C21: an import that ends without error has made one update call for     *)
(* each directory staged, not one for each line, and reports the number of *)
(* (directory, file name) pairs staged and the number of directories; of   *)
(* two lines staged under the same pair the state of the later line is the *)
(* one staged and persisted.                                               *)
(***************************************************************************)
C21_ImportGroups ==
  (out.cmd \in {"import-watched", "import-playing"} /\ out.err = "") =>
    /\ \A j, k \in DOMAIN out.upd : out.upd[j].dir = out.upd[k].dir => j = k
    /\ {out.upd[k].dir : k \in DOMAIN out.upd} = {t[1] : t \in C21_Targets}
    /\ out.msg = <<"IMPORTED", Cardinality(C21_Targets),
                   Cardinality({t[1] : t \in C21_Targets})>>
    /\ \A k \in DOMAIN out.upd : \A fn \in DOMAIN out.upd[k].ch :
          \E i \in C20_Kept :
            /\ C21_Target(i) = <<out.upd[k].dir, fn>>
            /\ \A j \in C20_Kept : C21_Target(j) = C21_Target(i) => j <= i
            /\ out.upd[k].ch[fn] = LineState(out.cmd, i)
            /\ StoredFiles(cfg, out.upd[k].dir)[fn] = LineState(out.cmd, i)

\* /m/more/a.mkv read twice, with the times 1 and 2: one file in one
\* directory, one update, and the time 2 is the one persisted
C21_Witness ==
  /\ out.cmd = "import-playing"
  /\ out.err = ""
  /\ probe.it = <<P_more \o <<"a.mkv">>, P_more \o <<"a.mkv">>>>
  /\ probe.repl = <<>> /\ probe.repl_all = <<>>
  /\ out.upd = <<Upd(P_more, [fn \in {"a.mkv"} |-> PyInt(2)])>>
  /\ out.msg = <<"IMPORTED", 1, 1>>
  /\ StoredFiles(cfg, P_more) = [fn \in {"a.mkv"} |-> PyInt(2)]

(***************************************************************************)
(* C22: in every state, for every directory a command can run in, every    *)
(* file name and each of Done, Skip and the unmark sentinel, an update     *)
(* that succeeds followed by the same update leaves the configuration      *)
(* directory as the first update left it.                                  *)
(***************************************************************************)
C22_UpdateIdempotent ==
  \A d \in W.cmddirs \cap W.dirs :
    \A f \in W.files[W.real[d]] \cup {"n.mkv"} :
      \A v \in {DONE, SKIP, UNMARK} :
        LET ch == [k \in {f} |-> v]
            u1 == db_update(cfg, d, ch)
            u2 == db_update(u1.cfg, d, ch)
        IN  u1.ok => (u2.ok /\ u2.cfg = u1.cfg)

\* x.mkv has just been marked, next to an entry that is playing: marking it
\* again is an update of an entry that is Done already
C22_Witness ==
  /\ out.cmd = "mark"
  /\ out.err = ""
  /\ out.upd = <<Upd(P_m, [fn \in {"x.mkv"} |-> DONE])>>
  /\ "x.mkv" \in DOMAIN StoredFiles(cfg, P_m)
  /\ StoredFiles(cfg, P_m)["x.mkv"] = DONE
  /\ \E k \in DOMAIN StoredFiles(cfg, P_m) : IsPlaying(StoredFiles(cfg, P_m)[k])

\* the commands that play files
PlayCmds == {"play", "next", "next-new"}

\* what the entry of the file just played has to be in each outcome
C23_Entry(pc, new) ==
  CASE pc = "Continuing" -> inv.cur \in DOMAIN new /\ IsPlaying(new[inv.cur])
    [] pc = "Finished"   -> inv.cur \in DOMAIN new /\ IsDone(new[inv.cur])
    [] pc = "Unmarked"   -> inv.cur \notin DOMAIN new
    [] OTHER             -> FALSE

(***************************************************************************)
(* C23: a play command goes from Launching to Reconciling or to Failed     *)
(* without a write, Failed is entered from Launching only, and from        *)
(* Reconciling it goes to exactly one of Continuing, Finished and          *)
(* Unmarked, with one update call that leaves the played file as           *)
(* Playing(seconds), as Done, or without an entry; the configuration       *)
(* directory changes in no other step of a play command.                   *)
(***************************************************************************)
C23_PlayStateMachine ==
  [][/\ inv.pc = "Launching" =>
          (inv'.pc \in {"Reconciling", "Failed"} /\ cfg' = cfg /\ out'.upd = <<>>)
     /\ (inv'.pc = "Failed" /\ inv.pc # "Failed") => inv.pc = "Launching"
     /\ inv.pc = "Reconciling" =>
          /\ inv'.pc \in {"Continuing", "Finished", "Unmarked"}
          /\ Len(out'.upd) = 1
          /\ C23_Entry(inv'.pc, StoredFiles(cfg', inv.dir))
     /\ (out'.cmd \in PlayCmds /\ cfg' # cfg) => inv.pc = "Reconciling"]_vars

\* the report of a player that exited holds no position for the file
NoPosition(player, rep) ==
  IF player = "mpv" THEN rep = NoAV ELSE rep.pos < 0

(***************************************************************************)
(* C25: while the player runs the program does nothing but wait for it,    *)
(* and a step in which the player is killed by a signal is, for mpv and    *)
(* for vlc, the step of a player that exited normally with the same        *)
(* report: the report goes on to be reconciled and no failure is reported. *)
(***************************************************************************)
C25_KilledLikeExit ==
  [][/\ inv.pc = "Launching" => (inv'.pc \in {"Reconciling", "Failed"} /\ cfg' = cfg)
     /\ \A rep \in MpvReports \cup VlcReports :
          PlayerKilled(rep) => PlayerExits(rep)]_vars

(***************************************************************************)
(* C26: when the player exited normally and left no position for the file  *)
(* (mpv: no "AV:" in its output; vlc: the file is not in the recent-files  *)
(* record), the command ends the file in Finished or in Unmarked and       *)
(* reports no error.                                                       *)
(***************************************************************************)
C26_NoPositionIsNoTime ==
  [][(inv.pc = "Reconciling" /\ NoPosition(inv.player, inv.rep)) =>
       (inv'.pc \in {"Finished", "Unmarked"} /\ out'.err = "")]_vars

\* the number of links from the sidecar name n to the end of its chain
RECURSIVE ChainLen(_, _, _)
ChainLen(c, n, fuel) ==
  IF c[n].k = "link" /\ fuel > 0 THEN 1 + ChainLen(c, c[n].to, fuel - 1) ELSE 0

(***************************************************************************)
(* C27: in every state reached from a configuration directory without      *)
(* links, the chain of every sidecar that is a link ends at a regular      *)
(* sidecar file (no cycle, no dangling link), and alias with a directory   *)
(* as both source and target fails, whether the directory is indexed or    *)
(* not.                                                                    *)
(***************************************************************************)
C27_LinksEndAtFiles ==
  /\ \A n \in SidecarNames :
        cfg[n].k = "link" => cfg[resolve(cfg, n)].k = "file"
  /\ \A d \in W.cmddirs :
        \/ do_something(cfg, d, FALSE).err # ""
        \/ AliasError(cfg, W, d, d) # ""

\* /m/link2 is a link to the link of /m/link, which is a link to the
\* sidecar of /m/more, and an alias of an indexed directory has just failed
C27_Witness ==
  /\ \E n \in SidecarNames : ChainLen(cfg, n, Cardinality(SidecarNames)) = 2
  /\ out.cmd = "alias"
  /\ out.err = "AlreadyExists"
  /\ AliasError(cfg, W, P_more, P_more) = "AlreadyExists"
  /\ AliasError([cfg EXCEPT ![db_dir_file(P_more)] = NoEntry], W, P_more, P_more)
       = "NotIndexed"

\* a change value that db_update neither drops nor accepts
C29_Invalid(v) == ~ValidValue(v) /\ ~PyEq(v, UNMARK)

(***************************************************************************)
(* C29: of the update calls of an import of playing records, one with a    *)
(* change value that is not a file state and not equal to the unmark       *)
(* sentinel (-2 seconds) fails with CorruptDatabase, is the last call made *)
(* and leaves the directory's sidecar as it was; any other call leaves     *)
(* each of its files with the imported value, except that a file imported  *)
(* with 0 seconds has no entry afterwards, whether it had one before or    *)
(* not.                                                                    *)
(***************************************************************************)
C29_CheckedBeforeWrite ==
  [][out'.cmd = "import-playing" =>
       \A k \in DOMAIN out'.upd :
         LET d  == out'.upd[k].dir
             ch == out'.upd[k].ch
         IN  IF \E fn \in DOMAIN ch : C29_Invalid(ch[fn])
             THEN /\ out'.err = "CorruptDatabase"
                  /\ k = Len(out'.upd)
                  /\ Stored(cfg', d) = Stored(cfg, d)
             ELSE \A fn \in DOMAIN ch :
                    IF ch[fn] = PyInt(0)
                    THEN fn \notin DOMAIN StoredFiles(cfg', d)
                    ELSE /\ fn \in DOMAIN StoredFiles(cfg', d)
                         /\ StoredFiles(cfg', d)[fn] = ch[fn]]_vars

\* /m/n.mkv imported with 0 seconds and /gone/n.mkv with -2: /m's record,
\* which held x.mkv and n.mkv, is left with x.mkv only, and the update of
\* /gone has failed without leaving a sidecar
C29_Witness ==
  /\ out.cmd = "import-playing"
  /\ out.err = "CorruptDatabase"
  /\ out.upd = <<Upd(P_m, [fn \in {"n.mkv"} |-> PyInt(0)]),
                 Upd(P_gone, [fn \in {"n.mkv"} |-> PyInt(-2)])>>
  /\ DOMAIN StoredFiles(cfg, P_m) = {"x.mkv"}
  /\ Stored(cfg, P_gone) = NoEntry

\* the FILE arguments that can select nothing: a range a-b with a > b, and
\* a state keyword
C30_Args ==
  {a \in CmdArgs :
     \/ a.spec.k = "word" /\ a.spec.w \in STATES
     \/ /\ a.spec.k = "nums"
        /\ Len(a.spec.parts) = 1
        /\ a.spec.parts[1][1] > a.spec.parts[1][2]}

\* a selects no file of d: no file is in the state of the keyword, or the
\* range is a-b with a > b and both bounds among the files' indexes
C30_SelectsNothing(d, a) ==
  LET files == dir_files(W, d, a.ic)
      fs    == do_something(cfg, d, TRUE).fs
  IN  IF a.spec.k = "word"
      THEN \A i \in DOMAIN files : _state(files[i], fs) # a.spec.w
      ELSE \A x \in {a.spec.parts[1][1], a.spec.parts[1][2]} :
             1 <= x /\ x <= Len(files)

(***************************************************************************)
(* C30: in a directory whose record loads, a FILE argument that is a state *)
(* keyword no file is in, or a range a-b with a > b within 1..N, selects   *)
(* no file and is no error; and a mark, skip or unmark that ends without   *)
(* error after an update call with no changes leaves the directory's files *)
(* map as it was and the directory with a sidecar, which for a directory   *)
(* that had none is a record with an empty files map.                      *)
(***************************************************************************)
C30_EmptySelectionIndexes ==
  /\ [](\A d \in W.cmddirs : \A a \in C30_Args :
          (do_something(cfg, d, TRUE).err = "" /\ C30_SelectsNothing(d, a)) =>
            \A must_exist \in BOOLEAN :
              _files_from_spec(W, d, do_something(cfg, d, TRUE).fs, a.spec,
                               must_exist, a.ic) = Sel("", <<>>))
  /\ [][(/\ out'.cmd \in {"mark", "skip", "unmark"}
         /\ out'.err = ""
         /\ Len(out'.upd) = 1
         /\ out'.upd[1].ch = EmptyFiles) =>
          LET d == out'.upd[1].dir
          IN  /\ StoredFiles(cfg', d) = StoredFiles(cfg, d)
              /\ Stored(cfg', d).k = "file"
              /\ Stored(cfg, d).k = "none" =>
                   Stored(cfg', d) = FileEntry([dir |-> d, files |-> EmptyFiles])]_vars

\* skip with a selection that is empty has just indexed /m, which has
\* files, with an empty files map
C30_Witness ==
  /\ out.cmd = "skip"
  /\ out.err = ""
  /\ out.upd = <<Upd(P_m, EmptyFiles)>>
  /\ inv.cfg0 = EmptyCfg
  /\ W.files[P_m] # {}
  /\ cfg = [EmptyCfg EXCEPT ![db_dir_file(P_m)] =
                             FileEntry([dir |-> P_m, files |-> EmptyFiles])]

(***************************************************************************)
(* Two invocations at once.  Nothing locks a sidecar (db_update's TODO:    *)
(* "use flock?"), so the steps of the db_update calls of two processes     *)
(* interleave: the load, the open("w") that truncates the file, and the    *)
(* dump that fills it.  Here inv holds, for each process, where it is in   *)
(* db_update, the changes it was called with and the record it loaded.     *)
(* A process that loads a truncated file dies of json.load's               *)
(* JSONDecodeError.                                                        *)
(***************************************************************************)
Procs == {"p", "q"}

TruncEntry == [k |-> "trunc", dir |-> <<>>, files |-> EmptyFiles, to |-> <<>>]

IdleProc ==
  [pc |-> "Idle", ch |-> EmptyFiles,
   db |-> [ok |-> TRUE, dir |-> <<>>, files |-> EmptyFiles]]

RaceChanges ==
  {[fn \in {f} |-> v] : f \in WorldN.files[P_m], v \in {DONE, UNMARK}}

\* the entries a write loses: those it was not called to change and that
\* are not after the write what they were before it
Lost(before, after, ch) ==
  {f \in (DOMAIN before \cup DOMAIN after) \ DOMAIN ch :
     \/ f \notin DOMAIN before
     \/ f \notin DOMAIN after
     \/ before[f] # after[f]}

\* db = db_load(dpath)
db_update_load(p, ch) ==
  LET db == db_load(cfg, P_m)
      err == IF Stored(cfg, P_m).k = "trunc" THEN "JSONDecodeError"
             ELSE IF ~db.ok THEN "CorruptDatabase" ELSE ""
  IN  /\ inv[p].pc \in {"Idle", "Done", "Crashed"}
      /\ UNCHANGED <<world, probe, cfg>>
      /\ inv' = [inv EXCEPT ![p] = IF err # "" THEN [pc |-> "Crashed", ch |-> ch, db |-> IdleProc.db]
                                   ELSE [pc |-> "Loaded", ch |-> ch, db |-> db]]
      /\ out' = Out("load", err, <<>>, <<>>, <<p>>)

\* the merge, the check of the merged record, and df.open("w")
db_update_open(p) ==
  LET db  == inv[p].db
      df  == db_dir_file(db.dir)
      db_ == [keys |-> TRUE, dir |-> db.dir, files |-> Prune(Merge(db.files, inv[p].ch))]
  IN  /\ inv[p].pc = "Loaded"
      /\ UNCHANGED <<world, probe>>
      /\ IF ~_db_check(cfg, df, db.dir, db_)
         THEN /\ cfg' = cfg
              /\ inv' = [inv EXCEPT ![p].pc = "Crashed"]
              /\ out' = Out("open", "CorruptDatabase", <<>>, <<>>, <<p>>)
         ELSE /\ cfg' = [cfg EXCEPT ![resolve(cfg, df)] = TruncEntry]
              /\ inv' = [inv EXCEPT ![p].pc = "Open"]
              /\ out' = Out("open", "", <<>>, <<>>, <<p>>)

\* a dump that writes the changes over the record as it is on disk now
db_update_dump_merges_again(p) ==
  LET db  == inv[p].db
      df  == db_dir_file(db.dir)
      db_ == [dir |-> db.dir,
              files |-> Prune(Merge(StoredFiles(cfg, db.dir), inv[p].ch))]
  IN  /\ inv[p].pc = "Open"
      /\ UNCHANGED <<world, probe>>
      /\ cfg' = [cfg EXCEPT ![resolve(cfg, df)] = FileEntry(db_)]
      /\ inv' = [inv EXCEPT ![p].pc = "Done"]
      /\ out' = Out("dump", "", <<Upd(db.dir, inv[p].ch)>>, <<>>,
                    <<p, Lost(StoredFiles(cfg, db.dir), db_.files, inv[p].ch)>>)

\* json.dump(db_, f) and the close of the file
db_update_dump(p) ==
  LET db  == inv[p].db
      df  == db_dir_file(db.dir)
      db_ == [dir |-> db.dir, files |-> Prune(Merge(db.files, inv[p].ch))]
  IN  /\ inv[p].pc = "Open"
      /\ UNCHANGED <<world, probe>>
      /\ cfg' = [cfg EXCEPT ![resolve(cfg, df)] = FileEntry(db_)]
      /\ inv' = [inv EXCEPT ![p].pc = "Done"]
      /\ out' = Out("dump", "", <<Upd(db.dir, inv[p].ch)>>, <<>>,
                    <<p, Lost(StoredFiles(cfg, db.dir), db_.files, inv[p].ch)>>)

InitRace ==
  /\ world = "N"
  /\ inv = [p \in Procs |-> IdleProc]
  /\ out = Out("", "", <<>>, <<>>, <<>>)
  /\ probe = NoProbe
  /\ \E m \in {NoEntry} \cup GoodRecords(P_m, WorldN.files[P_m], {DONE}) :
       cfg = [EmptyCfg EXCEPT ![db_dir_file(P_m)] = m]

NextRace ==
  \/ \E p \in Procs, ch \in RaceChanges : db_update_load(p, ch)
  \/ \E p \in Procs : db_update_open(p)
  \/ \E p \in Procs : db_update_dump(p)

SpecRace == InitRace /\ [][NextRace]_vars

OtherChanges ==
  {[fn \in {f} |-> v] : f \in WorldN.files[P_m],
                         v \in {DONE, UNMARK, PyInt(MaxStored)}}

OtherInvocation(ch) ==
  /\ inv.pc = "Launching"
  /\ UNCHANGED <<world, probe, inv>>
  /\ \E u \in {db_update(cfg, inv.dir, ch)} :
       /\ cfg' = u.cfg
       /\ out' = Out("other", IF u.ok THEN "" ELSE "CorruptDatabase",
                     <<Upd(inv.dir, ch)>>, <<>>, <<>>)

InitPlay ==
  /\ world = "N"
  /\ inv = IdleInv
  /\ out = Out("", "", <<>>, <<>>, <<>>)
  /\ probe = NoProbe
  /\ \E m \in {NoEntry} \cup GoodRecords(P_m, WorldN.files[P_m],
                                          {DONE, PyInt(MaxStored)}) :
       cfg = [EmptyCfg EXCEPT ![db_dir_file(P_m)] = m]

NextPlay ==
  \/ \E d \in W.cmddirs, p \in W.players : do_play_file(d, p)
  \/ \E kind \in {"PlayerNotFound", "PlayerExitedAbnormally"} : PlayerFails(kind)
  \/ \E rep \in MpvReports : PlayerExits(rep)
  \/ \E yes \in BOOLEAN : Reconcile(yes)
  \/ NextFile
  \/ \E ch \in OtherChanges : OtherInvocation(ch)

SpecPlay == InitPlay /\ [][NextPlay]_vars

\* the entry of f in the files map fs, None for no entry
C28_Entry(fs, f) == IF f \in DOMAIN fs THEN fs[f] ELSE PyNone

(***************************************************************************)
(* C28: the update that ends a play without error leaves every entry but   *)
(* the played file's as it was on disk just before, entries another        *)
(* invocation wrote while the player ran included; and the offset each     *)
(* file of the command is started from is computed from the files map as   *)
(* it was on disk when the command started.                                *)
(***************************************************************************)
C28_OnlyPlayedEntryChanges ==
  [][/\ (inv.pc = "Reconciling" /\ out'.err = "") =>
          \A f \in (DOMAIN StoredFiles(cfg, inv.dir)
                      \cup DOMAIN StoredFiles(cfg', inv.dir)) \ {inv.cur} :
            C28_Entry(StoredFiles(cfg', inv.dir), f)
              = C28_Entry(StoredFiles(cfg, inv.dir), f)
     /\ (inv'.pc = "Launching" /\ inv.pc # "Launching") =>
          out'.launch =
            <<Launch(StoredFiles(inv'.cfg0, inv'.dir), inv'.cur)>>]_vars

\* play all: while x.mkv played another invocation recorded y.mkv as
\* playing; the entry is still there after x.mkv's update, and y.mkv is
\* started from the beginning, as the record of the command's start has it
C28_Witness ==
  /\ inv.pc = "Launching"
  /\ inv.played = 1
  /\ inv.cur = "y.mkv"
  /\ "y.mkv" \notin DOMAIN StoredFiles(inv.cfg0, P_m)
  /\ C28_Entry(StoredFiles(cfg, P_m), "y.mkv") = PyInt(MaxStored)
  /\ out.launch = <<[fn |-> "y.mkv", off |-> 0]>>
  /\ StartOffset(StoredFiles(cfg, P_m), "y.mkv") > 0

====
